---- MODULE Spec2Model ----
(***************************************************************************)
(* A model of the Economyxim agent-based economy: the per-tick scheduler   *)
(* (EconomicSimulationModel.step), the firm (production, fulfilment,       *)
(* pricing, production level, hire/fire), the person, the household, the   *)
(* intermediary firm and the government.                                   *)
(*                                                                         *)
(* Numbers.  The program computes in floating point; the model computes    *)
(* in fixed point and keeps every quantity an integer:                     *)
(*   money and prices      tenths of a currency unit  (2.4   -> 24)        *)
(*   markup                thousandths                (0.5   -> 500)       *)
(*   production_level      hundredths                 (1.0   -> 100)       *)
(*   market pressure       hundredths                 (-0.6  -> -60)       *)
(*   skill_level           hundredths                 (39.85 -> 3985)      *)
(*   rates, shares         hundredths                 (0.22  -> 22)        *)
(* Units, labor and counters are whole numbers.  A division rounds down.   *)
(* A comparison of a quotient x/(y + 1e-6) with a constant is stated on    *)
(* the integers x and y: the epsilon only matters when both sides are      *)
(* equal, where it turns "<" into "<=" and leaves ">" as it is.            *)
(***************************************************************************)
EXTENDS Integers, Sequences, FiniteSets, TLC

VARIABLES
    persons,      \* PersonAgent fields, by person id
    firms,        \* FirmAgent fields, by firm id
    inter,        \* the IntermediaryFirmAgent
    households,   \* HouseholdAgent fields, by household id
    gov,          \* the GovernmentAgent
    sched,        \* EconomicSimulationModel: current_step and the position in step()
    trace         \* observations of the last call (what it was given, what it returned)

vars == <<persons, firms, inter, households, gov, sched, trace>>

-----------------------------------------------------------------------------
(* Arithmetic helpers                                                      *)

Min(a, b) == IF a <= b THEN a ELSE b

Max(a, b) == IF a >= b THEN a ELSE b

Abs(a) == IF a < 0 THEN -a ELSE a

\* Python's round(n/d) for n >= 0, d > 0: to nearest, a tie goes to the even integer.
PyRound(n, d) ==
    LET q == n \div d
        r == n % d
    IN  IF 2 * r < d THEN q
        ELSE IF 2 * r > d THEN q + 1
        ELSE IF q % 2 = 0 THEN q ELSE q + 1

\* Money from whole currency units (tenths of a unit).
Money(units) == units * 10

\* amount * pct / 100, rounded towards minus infinity.
PctOf(amount, pct) ==
    (amount \div 100) * pct + ((amount % 100) * pct) \div 100

RECURSIVE SumSeq(_)
SumSeq(s) == IF s = <<>> THEN 0 ELSE Head(s) + SumSeq(Tail(s))

RECURSIVE SumOver(_, _)
SumOver(S, val) ==
    IF S = {} THEN 0
    ELSE LET x == CHOOSE y \in S : TRUE IN val[x] + SumOver(S \ {x}, val)

SeqToSet(s) == {s[i] : i \in DOMAIN s}

\* list.remove(x) on a list without duplicates
RemoveFromSeq(s, x) == SelectSeq(s, LAMBDA y : y # x)

\* The elements of S in the order seq lists them (seq is a shuffle of a superset of S).
InOrder(seq, S) == SelectSeq(seq, LAMBDA y : y \in S)

\* All orders (shuffles) of a finite set, as sequences.
Orders(S) ==
    {s \in [1..Cardinality(S) -> S] : \A i, j \in 1..Cardinality(S) : i # j => s[i] # s[j]}

\* a/b < c/d for a, c >= 0 and b, d > 0, without forming the cross products.
RECURSIVE FracLess(_, _, _, _)
FracLess(a, b, c, d) ==
    LET q1 == a \div b
        q2 == c \div d
        r1 == a % b
        r2 == c % d
    IN  IF q1 # q2 THEN q1 < q2
        ELSE IF r2 = 0 THEN FALSE
        ELSE IF r1 = 0 THEN TRUE
        ELSE FracLess(d, r2, b, r1)

-----------------------------------------------------------------------------
(* Configuration tables of FirmAgent.__init__                              *)

JobLevels == <<"senior", "mid", "entry">>

skill_mix_config ==
    [technical  |-> [senior |-> 25, mid |-> 60, entry |-> 15],
     creative   |-> [senior |-> 25, mid |-> 45, entry |-> 30],
     physical   |-> [senior |-> 10, mid |-> 35, entry |-> 55],
     social     |-> [senior |-> 20, mid |-> 50, entry |-> 30],
     analytical |-> [senior |-> 25, mid |-> 55, entry |-> 20],
     service    |-> [senior |-> 10, mid |-> 40, entry |-> 50]]

min_skill_levels_config ==
    [technical  |-> [senior |-> 8000, mid |-> 6000, entry |-> 4000],
     creative   |-> [senior |-> 7000, mid |-> 5000, entry |-> 3000],
     physical   |-> [senior |-> 6000, mid |-> 4000, entry |-> 1000],
     social     |-> [senior |-> 7000, mid |-> 5000, entry |-> 3000],
     analytical |-> [senior |-> 8000, mid |-> 6000, entry |-> 3000],
     service    |-> [senior |-> 6000, mid |-> 4000, entry |-> 2000]]

\* in tenths: 1.0, 1.4, 2.0
wage_multipliers == [entry |-> 10, mid |-> 14, senior |-> 20]

demand_averaging_weights == <<10, 15, 20, 25, 30>>

profit_history_length == 4

demand_history_length == 5

skill_types == <<"physical", "service", "technical", "creative", "social", "analytical">>

luxury_types == {"technical", "social", "analytical", "creative"}

-----------------------------------------------------------------------------
(* The population the model is built from.  The program draws these at     *)
(* random (PersonAgent.__init__, EconomicSimulationModel.__init__); the    *)
(* model fixes a small population and keeps the shuffles free.             *)

\* PersonAgent.__init__: skill_type, skill_level (hundredths), labor = skill_level / uniform(3, 5)
PersonTable ==
    << [skill_type |-> "physical", skill_level |-> 5500, labor |-> 14],
       [skill_type |-> "physical", skill_level |-> 4500, labor |-> 11],
       [skill_type |-> "creative", skill_level |-> 7200, labor |-> 24],
       [skill_type |-> "creative", skill_level |-> 7100, labor |-> 15],
       [skill_type |-> "creative", skill_level |-> 7000, labor |-> 14],
       [skill_type |-> "physical", skill_level |-> 3000, labor |-> 8],
       [skill_type |-> "physical", skill_level |-> 996,  labor |-> 3],
       [skill_type |-> "service",  skill_level |-> 5000, labor |-> 12],
       [skill_type |-> "physical", skill_level |-> 3500, labor |-> 9] >>

\* FirmAgent.create_agents calls of EconomicSimulationModel.__init__: one physical
\* necessity firm (markup 2) and one creative luxury firm (markup 6).
FirmTable ==
    << [id |-> "F1", firm_type |-> "necessity", firm_area |-> "physical",
        production_capacity |-> 12000, production_cost |-> 20, markup |-> 2000,
        entry_wage |-> 600000, initial_employee_target |-> 2],
       [id |-> "F2", firm_type |-> "luxury", firm_area |-> "creative",
        production_capacity |-> 600, production_cost |-> 400, markup |-> 6000,
        entry_wage |-> 1080000, initial_employee_target |-> 3] >>

\* HouseholdAgent.create_agents: num_people per household
HouseholdTable ==
    << [id |-> "H1", num_people |-> 5],
       [id |-> "H2", num_people |-> 4] >>

\* IntermediaryFirmAgent.create_agents(initial_employee_target = ...)
IntermediaryTarget == 4

IntermediaryId == "IF"

PersonIds == DOMAIN PersonTable

TableIds(table) == {table[i].id : i \in DOMAIN table}

\* The agents of one kind in the order model.agents lists them (creation order).
TableOrder(table) == [i \in DOMAIN table |-> table[i].id]

\* random.shuffle of the persons: the orders the model lets a shuffle produce
PersonOrders ==
    LET n == Len(PersonTable)
    IN  { [i \in 1..n |-> i], [i \in 1..n |-> n + 1 - i] }

-----------------------------------------------------------------------------
(* Construction: PersonAgent.__init__                                      *)

\* a constructor that takes the skill level as drawn, without min(100, max(1, .))
NewPersonUnclamped(cfg) ==
    [skill_type |-> cfg.skill_type,
     skill_level |-> cfg.skill_level,
     labor |-> cfg.labor,
     employer |-> "none",
     wage |-> 0,
     job_seeking |-> TRUE,
     job_level |-> "none",
     studying_for_min_skills |-> FALSE,
     household |-> "none",
     in_agents |-> TRUE]

NewPerson(cfg) ==
    [skill_type |-> cfg.skill_type,
     skill_level |-> Min(10000, Max(100, cfg.skill_level)),
     labor |-> cfg.labor,
     employer |-> "none",
     wage |-> 0,
     job_seeking |-> TRUE,
     job_level |-> "none",
     studying_for_min_skills |-> FALSE,
     household |-> "none",
     in_agents |-> TRUE]

\* hiring that leaves the person looking for a job
EmployStillSeeking(person, employer, job_level, wage) ==
    [person EXCEPT !.employer = employer,
                   !.job_level = job_level,
                   !.wage = wage]

\* hiring that does not write the person's employer
EmployWithoutEmployer(person, employer, job_level, wage) ==
    [person EXCEPT !.job_seeking = FALSE,
                   !.job_level = job_level,
                   !.wage = wage]

\* The assignments that make a person an employee: employer, job_seeking = False,
\* job_level, wage
Employ(person, employer, job_level, wage) ==
    [person EXCEPT !.employer = employer,
                   !.job_seeking = FALSE,
                   !.job_level = job_level,
                   !.wage = wage]

\* The loop "for candidate in possible_hires" of both _populate_initial_workforce
\* methods: hire the candidates in order until the quota is met.
RECURSIVE HireCandidates(_, _, _, _, _, _, _)
HireCandidates(ps, emps, cands, quota, employer, job_level, wage) ==
    IF cands = <<>> \/ quota <= 0
    THEN [persons |-> ps, employees |-> emps]
    ELSE LET c == Head(cands)
         IN  IF ps[c].employer = "none" /\ ps[c].job_seeking
             THEN HireCandidates(
                      [ps EXCEPT ![c] = Employ(@, employer, job_level, wage)],
                      Append(emps, c), Tail(cands), quota - 1, employer, job_level, wage)
             ELSE HireCandidates(ps, emps, Tail(cands), quota, employer, job_level, wage)

\* FirmAgent._populate_initial_workforce: the loop over the job levels of the skill mix
RECURSIVE PopulateLevels(_, _, _, _, _, _)
PopulateLevels(ps, emps, levels, cfg, target_count, shuffle) ==
    IF levels = <<>> \/ Len(emps) >= target_count
    THEN [persons |-> ps, employees |-> emps]
    ELSE LET job_level == Head(levels)
             num_to_hire_for_level ==
                 PyRound(target_count * skill_mix_config[cfg.firm_area][job_level], 100)
             min_skill == min_skill_levels_config[cfg.firm_area][job_level]
             possible_hires ==
                 InOrder(shuffle, {p \in DOMAIN ps :
                                      /\ ps[p].job_seeking
                                      /\ ps[p].employer = "none"
                                      /\ ps[p].skill_type = cfg.firm_area
                                      /\ ps[p].skill_level >= min_skill})
             wage == (cfg.entry_wage * wage_multipliers[job_level]) \div 10
             r == IF num_to_hire_for_level = 0
                  THEN [persons |-> ps, employees |-> emps]
                  ELSE HireCandidates(ps, emps, possible_hires,
                                      Min(num_to_hire_for_level, target_count - Len(emps)),
                                      cfg.id, job_level, wage)
         IN  PopulateLevels(r.persons, r.employees, Tail(levels), cfg, target_count, shuffle)

\* FirmAgent._populate_initial_workforce
PopulateInitialWorkforce(ps, cfg, shuffle) ==
    IF DOMAIN ps = {} \/ cfg.firm_area \notin DOMAIN skill_mix_config
    THEN [persons |-> ps, employees |-> <<>>]
    ELSE PopulateLevels(ps, <<>>, JobLevels, cfg, cfg.initial_employee_target, shuffle)

\* The persons model.agents holds whose employer is `employer`
EmployedBy(ps, employer) == {p \in DOMAIN ps : ps[p].in_agents /\ ps[p].employer = employer}

\* FirmAgent.calculate_total_wage_cost
calculate_total_wage_cost(ps, fid, entry_wage, num_employees) ==
    LET employees == EmployedBy(ps, fid)
    IN  IF employees # {}
        THEN SumOver(employees, [p \in DOMAIN ps |-> ps[p].wage])
        ELSE entry_wage * num_employees

\* FirmAgent._calculate_total_labor
calculate_total_labor(ps, fid) ==
    SumOver(EmployedBy(ps, fid), [p \in DOMAIN ps |-> ps[p].labor])

\* FirmAgent.__init__ after the initial workforce is populated
NewFirm(cfg, ps, employees) ==
    LET production_cost == Max(Money(1), cfg.production_cost)
        production_level == 100
        num_employees == Len(employees)
        initial_wage_costs == calculate_total_wage_cost(ps, cfg.id, cfg.entry_wage, num_employees)
        initial_added_labor == calculate_total_labor(ps, cfg.id)
        initial_produced_units ==
            PyRound((cfg.production_capacity + initial_added_labor) * production_level, 100)
        initial_total_costs == initial_wage_costs + production_cost * initial_produced_units
        initial_cost_per_unit ==
            IF initial_produced_units > 0
            THEN initial_total_costs \div initial_produced_units
            ELSE production_cost
    IN  [firm_type |-> cfg.firm_type,
         firm_area |-> cfg.firm_area,
         production_capacity |-> cfg.production_capacity,
         production_level |-> production_level,
         production_cost |-> production_cost,
         produced_units |-> 0,
         labor_added_production_capacity |-> 0,
         markup |-> cfg.markup,
         min_price |-> PctOf(initial_cost_per_unit, 105),
         product_price |-> (initial_cost_per_unit * (1000 + cfg.markup)) \div 1000,
         revenue |-> 0,
         costs |-> 0,
         profit |-> 0,
         units_sold_this_step |-> 0,
         total_requested_this_step |-> 0,
         profit_history |-> <<>>,
         tax_paid_this_step |-> 0,
         inventory |-> cfg.production_capacity * 2,
         demand_history |-> <<>>,
         average_demand |-> [num |-> 0, den |-> 1],
         employees |-> employees,
         num_employees |-> num_employees,
         entry_wage |-> cfg.entry_wage,
         employee_adjustment_cooldown |-> 0,
         previous_employees |-> {},
         attempted |-> "none",
         adjustment_made |-> FALSE,
         requested_in_tick |-> 0,
         sold_in_tick |-> 0,
         paid_in_tick |-> 0,
         window |-> <<>>,
         fired |-> {}]

\* The FirmAgent.create_agents calls, in order: each firm hires from the persons left.
RECURSIVE BuildFirms(_, _, _, _)
BuildFirms(ps, fs, table, shuffle) ==
    IF table = <<>>
    THEN [persons |-> ps, firms |-> fs]
    ELSE LET cfg == Head(table)
             r == PopulateInitialWorkforce(ps, cfg, shuffle)
             f == NewFirm(cfg, r.persons, r.employees)
         IN  BuildFirms(r.persons,
                        [x \in DOMAIN fs \cup {cfg.id} |-> IF x = cfg.id THEN f ELSE fs[x]],
                        Tail(table), shuffle)

\* IntermediaryFirmAgent._populate_initial_workforce: the loop over the skill types
RECURSIVE PopulateSkillTypes(_, _, _, _, _)
PopulateSkillTypes(ps, emps, types, target_total_employees, shuffle) ==
    IF types = <<>> \/ Len(emps) >= target_total_employees
    THEN [persons |-> ps, employees |-> emps]
    ELSE LET num_to_hire_per_skill_type == PyRound(target_total_employees, Len(skill_types))
             possible_hires ==
                 InOrder(shuffle, {p \in DOMAIN ps :
                                      /\ ps[p].job_seeking
                                      /\ ps[p].employer = "none"
                                      /\ ps[p].skill_type = Head(types)})
             r == HireCandidates(ps, emps, possible_hires,
                                 Min(num_to_hire_per_skill_type,
                                     target_total_employees - Len(emps)),
                                 IntermediaryId, "entry", 0)
         IN  PopulateSkillTypes(r.persons, r.employees, Tail(types),
                                target_total_employees, shuffle)

\* IntermediaryFirmAgent.__init__
NewIntermediary(ps, target, shuffle) ==
    LET r == IF DOMAIN ps = {}
             THEN [persons |-> ps, employees |-> <<>>]
             ELSE PopulateSkillTypes(ps, <<>>, skill_types, target, shuffle)
    IN  [persons |-> r.persons,
         inter |-> [employees |-> r.employees,
                    num_employees |-> Len(r.employees),
                    demand_received_from_firms |-> 0,
                    revenue |-> 0]]

necessity_spend_per_person == Money(57750)

\* HouseholdAgent.__init__
NewHousehold(cfg) ==
    [num_people |-> cfg.num_people,
     income_tax_rate |-> 15,
     household_step_income |-> 0,
     household_step_income_posttax |-> 0,
     household_step_expense |-> 0,
     total_household_savings |-> necessity_spend_per_person * cfg.num_people,
     debt_level |-> 0,
     income_bracket |-> "none",
     wealth_bracket |-> "none",
     physical_target_for_attempt |-> 0,
     service_target_for_attempt |-> 0,
     purchase_loops |-> {},
     members |-> <<>>,
     current_population |-> 0]

\* hh.members.append(person); person.household = hh; hh.current_population += 1
Place(w, h, p) ==
    [w EXCEPT !.households[h].members = Append(@, p),
              !.households[h].current_population = @ + 1,
              !.persons[p].household = h]

\* _assign_persons_to_households: one pass over the households, one employed person each
RECURSIVE PlacePass(_, _, _)
PlacePass(w, queue, hseq) ==
    IF hseq = <<>> \/ queue = <<>>
    THEN [w |-> w, queue |-> queue, placed |-> FALSE]
    ELSE LET h == Head(hseq)
         IN  IF w.households[h].current_population < w.households[h].num_people
             THEN LET r == PlacePass(Place(w, h, Head(queue)), Tail(queue), Tail(hseq))
                  IN  [r EXCEPT !.placed = TRUE]
             ELSE PlacePass(w, queue, Tail(hseq))

\* _assign_persons_to_households: passes until nobody is left or nobody could be placed
RECURSIVE PlaceEmployed(_, _, _)
PlaceEmployed(w, queue, hseq) ==
    IF queue = <<>>
    THEN w
    ELSE LET r == PlacePass(w, queue, hseq)
         IN  IF r.placed THEN PlaceEmployed(r.w, r.queue, hseq) ELSE r.w

\* _assign_persons_to_households: fill each household in turn with unemployed persons
RECURSIVE FillUnemployed(_, _, _)
FillUnemployed(w, queue, hseq) ==
    IF hseq = <<>> \/ queue = <<>>
    THEN w
    ELSE LET h == Head(hseq)
         IN  IF w.households[h].current_population < w.households[h].num_people
             THEN FillUnemployed(Place(w, h, Head(queue)), Tail(queue), hseq)
             ELSE FillUnemployed(w, queue, Tail(hseq))

\* EconomicSimulationModel._assign_persons_to_households
AssignPersonsToHouseholds(ps, hhs, shuffle, hseq) ==
    LET employed_to_place ==
            InOrder(shuffle, {p \in DOMAIN ps : ps[p].employer # "none" /\ ps[p].household = "none"})
        unemployed_to_place ==
            InOrder(shuffle, {p \in DOMAIN ps : ps[p].employer = "none" /\ ps[p].household = "none"})
        w1 == PlaceEmployed([persons |-> ps, households |-> hhs], employed_to_place, hseq)
    IN  FillUnemployed(w1, unemployed_to_place, hseq)

\* a construction that leaves the unassigned persons among the agents
KeepUnassigned(ps) == ps

\* EconomicSimulationModel.__init__, "Cleanup Unassigned PersonAgents"
CleanupUnassigned(ps) ==
    [p \in DOMAIN ps |->
        IF ps[p].household = "none" THEN [ps[p] EXCEPT !.in_agents = FALSE] ELSE ps[p]]

\* GovernmentAgent.__init__
NewGovernment ==
    [reserves |-> Money(100000000),
     step_tax_revenue |-> 0,
     step_corporate_tax_revenue |-> 0,
     step_public_spending |-> 0,
     government_purchases_from_firms_step |-> << >>,
     purchase_loops |-> {},
     tax_rates |-> [low |-> 15, middle |-> 20, high |-> 27],
     corporate_tax_rate |-> 22,
     gini_coefficient |-> [num |-> 0, den |-> 1]]

\* EconomicSimulationModel.__init__: government, persons, firms, intermediary firm,
\* households, assignment, cleanup
BuildModel(personTable, firmTable, householdTable, interTarget, shuffle, hseq) ==
    LET ps0 == [p \in DOMAIN personTable |-> NewPerson(personTable[p])]
        b1 == BuildFirms(ps0, << >>, firmTable, shuffle)
        b2 == NewIntermediary(b1.persons, interTarget, shuffle)
        hh0 == [h \in TableIds(householdTable) |->
                   NewHousehold(CHOOSE c \in SeqToSet(householdTable) : c.id = h)]
        b3 == AssignPersonsToHouseholds(b2.persons, hh0, shuffle, hseq)
    IN  [persons |-> CleanupUnassigned(b3.persons),
         firms |-> b1.firms,
         inter |-> b2.inter,
         households |-> b3.households,
         gov |-> NewGovernment]

-----------------------------------------------------------------------------
(* FirmAgent operations                                                    *)

\* fulfill_demand_request without the inventory check: sells whatever is requested
FulfillWithoutStockCheck(f, units_requested) ==
    [firm |-> [f EXCEPT !.inventory = @ - units_requested,
                        !.units_sold_this_step = @ + units_requested,
                        !.total_requested_this_step = @ + units_requested],
     can_fulfill |-> units_requested]

\* fulfill_demand_request counting only the demand it met
FulfillCountingMetDemand(f, units_requested) ==
    LET can_fulfill == IF units_requested <= f.inventory THEN units_requested ELSE f.inventory
    IN  [firm |-> [f EXCEPT !.inventory = @ - can_fulfill,
                            !.units_sold_this_step = @ + can_fulfill,
                            !.total_requested_this_step = @ + can_fulfill],
         can_fulfill |-> can_fulfill]

\* fulfill_demand_request by a firm that raises its price with every sale
FulfillRaisingPrice(f, units_requested) ==
    LET can_fulfill == Min(units_requested, f.inventory)
        sold == IF can_fulfill > 0
                THEN [f EXCEPT !.inventory = @ - can_fulfill,
                               !.units_sold_this_step = @ + can_fulfill,
                               !.product_price = @ + 1]
                ELSE f
    IN  [firm |-> [sold EXCEPT !.total_requested_this_step = @ + units_requested,
                               !.requested_in_tick = @ + units_requested,
                               !.sold_in_tick = @ + can_fulfill],
         can_fulfill |-> can_fulfill]

\* FirmAgent.fulfill_demand_request: the firm after the call and the units it returns.
\* The fields requested_in_tick and sold_in_tick keep the units requested and sold
\* since the last data collection.
FulfillDemandRequest(f, units_requested) ==
    LET can_fulfill == Min(units_requested, f.inventory)
        sold == IF can_fulfill > 0
                THEN [f EXCEPT !.inventory = @ - can_fulfill,
                               !.units_sold_this_step = @ + can_fulfill]
                ELSE f
    IN  [firm |-> [sold EXCEPT !.total_requested_this_step = @ + units_requested,
                               !.requested_in_tick = @ + units_requested,
                               !.sold_in_tick = @ + can_fulfill],
         can_fulfill |-> can_fulfill]

\* The weighted (full window) or simple (shorter window) moving average of
\* FirmAgent.step, as the fraction num/den.
AverageDemand(demand_history) ==
    IF demand_history = <<>>
    THEN [num |-> 0, den |-> 1]
    ELSE IF Len(demand_history) = demand_history_length
    THEN [num |-> SumSeq([i \in DOMAIN demand_history |->
                             demand_history[i] * demand_averaging_weights[i]]),
          den |-> 100]
    ELSE [num |-> SumSeq(demand_history), den |-> Len(demand_history)]

\* average_demand < production_capacity * pct / 100
DemandBelowShare(f, pct) ==
    f.average_demand.num * 100 < f.production_capacity * pct * f.average_demand.den

\* FirmAgent.adjust_price: market_pressure before it is capped, in hundredths
MarketPressure(f, sold_units, produced_units) ==
    LET inv == f.inventory
        req == f.total_requested_this_step
        dh == f.demand_history
        n == Len(dh)
        \* inventory_demand_ratio = inventory / (total_requested_this_step + 1e-6)
        inventory_pressure ==
            IF f.firm_type = "luxury"
            THEN IF inv > 3 * req THEN -70
                 ELSE IF inv > 2 * req THEN -60
                 ELSE IF 2 * inv > 3 * req THEN -50
                 ELSE IF 10 * inv <= 3 * req THEN 60
                 ELSE IF 2 * inv <= req THEN 40
                 ELSE 0
            ELSE IF inv > 2 * req THEN -40
                 ELSE IF 2 * inv > 3 * req THEN -20
                 ELSE IF 2 * inv <= req THEN 50
                 ELSE IF 5 * inv <= req THEN 100
                 ELSE 0
        \* sell_through_rate = sold_units / (produced_units + 1e-6)
        sales_pressure ==
            IF 5 * sold_units <= produced_units THEN -50
            ELSE IF 5 * sold_units <= 2 * produced_units THEN -30
            ELSE IF 10 * sold_units > 9 * produced_units THEN 40
            ELSE 0
        \* short_term_trend = demand_history[-1] / (demand_history[-2] + 1e-6) - 1
        short_pressure ==
            IF n < 2 THEN 0
            ELSE IF 10 * dh[n] <= 7 * dh[n - 1] THEN -20
            ELSE IF 10 * dh[n] <= 8 * dh[n - 1] THEN -10
            ELSE IF 10 * dh[n] > 12 * dh[n - 1] THEN 15
            ELSE 0
        \* long_term_trend = latest_demand / (earliest_demand + 1e-6) - 1
        earliest == IF n = demand_history_length THEN dh[1] + dh[2] ELSE 0
        latest == IF n = demand_history_length THEN dh[n - 1] + dh[n] ELSE 0
        long_pressure ==
            IF n < 2 \/ n # demand_history_length THEN 0
            ELSE IF 10 * latest <= 8 * earliest THEN -10
            ELSE IF 10 * latest <= 9 * earliest THEN -5
            ELSE IF 10 * latest > 11 * earliest THEN 5
            ELSE 0
        crisis_pressure ==
            IF /\ f.firm_type = "luxury"
               /\ DemandBelowShare(f, 15)
               /\ 10 * sold_units <= 3 * produced_units
            THEN -60 ELSE 0
    IN  inventory_pressure + sales_pressure + short_pressure + long_pressure + crisis_pressure

\* a markup without its floor
UnflooredMarkup(markup) == markup

\* self.markup = max(0.5, self.markup), in thousandths
FloorMarkup(markup) == Max(500, markup)

\* a price floor relaxed for every firm, in crisis or not
AlwaysFlexibleMinPrice(f) == PctOf(f.production_cost, 102)

\* flexible_min_price of FirmAgent.adjust_price
FlexibleMinPrice(f) ==
    IF f.firm_type = "luxury" /\ DemandBelowShare(f, 20)
    THEN PctOf(f.production_cost, 102)
    ELSE f.min_price

\* FirmAgent.adjust_price
adjust_price(f, sold_units, produced_units, cost_per_unit) ==
    IF produced_units = 0
    THEN f
    ELSE LET market_pressure ==
                 Max(-100, Min(MarketPressure(f, sold_units, produced_units), 100))
             markup_change ==
                 IF f.firm_type = "luxury" /\ market_pressure < -50
                 THEN market_pressure * 8
                 ELSE market_pressure * 5
             markup == FloorMarkup(f.markup + markup_change)
             calculated_price == (cost_per_unit * (1000 + markup)) \div 1000
         IN  [f EXCEPT !.markup = markup,
                       !.product_price = Max(calculated_price, FlexibleMinPrice(f))]

\* no minimum production level
NoMinimumLevel(f) == 0

\* min_production_level of FirmAgent.adjust_production, in hundredths
MinProductionLevel(f) == IF f.firm_type = "luxury" THEN 30 ELSE 20

\* FirmAgent.adjust_production
adjust_production(f, sold_units) ==
    LET avg == f.average_demand
        inv == f.inventory
        lvl == f.production_level
        min_production_level == MinProductionLevel(f)
        \* demand_to_inventory_ratio = average_demand / (inventory + 1e-6)
        ratio_above_1_5 == 2 * avg.num > 3 * avg.den * inv
        ratio_above_1_0 == avg.num > avg.den * inv
        \* sell_through_rate = sold_units / (produced_units + 1e-6)
        sell_above_0_8 == 10 * sold_units > 8 * f.produced_units
        sell_below_0_3 == 10 * sold_units <= 3 * f.produced_units
        adjusted ==
            IF ratio_above_1_5 THEN Min(100, lvl + 10)
            ELSE IF ratio_above_1_0 THEN Min(100, lvl + 5)
            ELSE IF sell_above_0_8 THEN Min(100, lvl + 3)
            ELSE IF sell_below_0_3 /\ inv * avg.den > 2 * avg.num
                 THEN Max(lvl - 30, min_production_level)
            ELSE IF inv * avg.den > 3 * avg.num
                 THEN Max(lvl - 50, min_production_level)
            ELSE lvl
        crisis ==
            IF f.firm_type = "luxury" /\ DemandBelowShare(f, 10) /\ adjusted < 50
            THEN 40 ELSE adjusted
    IN  IF f.labor_added_production_capacity <= 0
        THEN [f EXCEPT !.production_level = 0]
        ELSE IF f.demand_history = <<>> \/ avg.num = 0
        THEN IF 10 * inv < 3 * f.production_capacity
             THEN [f EXCEPT !.production_level = Max(70, min_production_level)]
             ELSE [f EXCEPT !.production_level = Max(50, min_production_level)]
        ELSE [f EXCEPT !.production_level = Min(Max(crisis, min_production_level), 100)]

\* productivity = skill_level * labor / (wage + 1e-6): does a rank below b?
\* Equal quotients are told apart by the epsilon: the lower wage loses more.
LessProductive(a, b) ==
    LET na == a.skill_level * a.labor
        nb == b.skill_level * b.labor
    IN  IF a.wage = 0 \/ b.wage = 0
        THEN IF a.wage = 0 /\ b.wage = 0 THEN na < nb
             ELSE IF b.wage = 0 THEN nb > 0
             ELSE na = 0 /\ nb > 0
        ELSE \/ FracLess(na, a.wage, nb, b.wage)
             \/ /\ ~FracLess(nb, b.wage, na, a.wage)
                /\ a.wage < b.wage

\* The last, not the first, employee of least productivity
LeastProductiveLast(ps, employees) ==
    LET i == CHOOSE k \in DOMAIN employees :
                 /\ \A j \in DOMAIN employees : ~LessProductive(ps[employees[j]], ps[employees[k]])
                 /\ \A j \in (k + 1)..Len(employees) :
                        LessProductive(ps[employees[k]], ps[employees[j]])
    IN  employees[i]

\* employee_productivity.sort(...)[0]: the first employee of least productivity
LeastProductive(ps, employees) ==
    LET i == CHOOSE k \in DOMAIN employees :
                 /\ \A j \in DOMAIN employees : ~LessProductive(ps[employees[j]], ps[employees[k]])
                 /\ \A j \in 1..(k - 1) : LessProductive(ps[employees[k]], ps[employees[j]])
    IN  employees[i]

\* fire_least_productive without the guard on the number of employees
FireWithoutFloor(w, fid) ==
    LET f == w.firms[fid]
    IN  IF f.employees = <<>>
        THEN [w |-> w, ok |-> FALSE]
        ELSE LET person_to_fire == LeastProductive(w.persons, f.employees)
             IN  [w |-> [w EXCEPT !.persons[person_to_fire].employer = "none",
                                  !.persons[person_to_fire].wage = 0,
                                  !.persons[person_to_fire].job_seeking = TRUE,
                                  !.firms[fid].employees = RemoveFromSeq(@, person_to_fire),
                                  !.firms[fid].num_employees = @ - 1,
                                  !.firms[fid].fired = @ \cup {person_to_fire}],
                  ok |-> TRUE]

\* FirmAgent.fire_least_productive on firm fid of world w = [firms, persons].  The
\* field fired records the persons the firm has dismissed.
fire_least_productive(w, fid) ==
    LET f == w.firms[fid]
    IN  IF f.employees = <<>> \/ f.num_employees <= 1
        THEN [w |-> w, ok |-> FALSE]
        ELSE LET person_to_fire == LeastProductive(w.persons, f.employees)
             IN  [w |-> [w EXCEPT !.persons[person_to_fire].employer = "none",
                                  !.persons[person_to_fire].wage = 0,
                                  !.persons[person_to_fire].job_seeking = TRUE,
                                  !.firms[fid].employees = RemoveFromSeq(@, person_to_fire),
                                  !.firms[fid].num_employees = @ - 1,
                                  !.firms[fid].fired = @ \cup {person_to_fire}],
                  ok |-> TRUE]

\* candidates_to_consider.sort(key = skill_level, reverse = True): a stable sort of
\* the candidates, which model.agents lists in the order of their ids
RECURSIVE SortBySkillDesc(_, _)
SortBySkillDesc(S, ps) ==
    IF S = {} THEN <<>>
    ELSE LET best == CHOOSE p \in S :
                         \A q \in S : \/ ps[q].skill_level < ps[p].skill_level
                                      \/ ps[q].skill_level = ps[p].skill_level /\ p <= q
         IN  <<best>> \o SortBySkillDesc(S \ {best}, ps)

\* a hire that always asks for the entry level
NeedsEntryLevel(f, ps) == "entry"

\* The job level FirmAgent.hire_new_employee hires for: the first of senior, mid,
\* entry with the largest (target share - current share), the new hire counted in.
NeededJobLevel(f, ps) ==
    LET firm_levels == IF f.firm_area \in DOMAIN min_skill_levels_config
                       THEN min_skill_levels_config[f.firm_area]
                       ELSE min_skill_levels_config["physical"]
        target_mix == IF f.firm_area \in DOMAIN skill_mix_config
                      THEN skill_mix_config[f.firm_area]
                      ELSE skill_mix_config["physical"]
        LevelOf(e) ==
            IF ps[e].job_level # "none" THEN ps[e].job_level
            ELSE IF ps[e].skill_level >= firm_levels["senior"] THEN "senior"
            ELSE IF ps[e].skill_level >= firm_levels["mid"] THEN "mid"
            ELSE "entry"
        current_mix(level) ==
            Cardinality({i \in DOMAIN f.employees : LevelOf(f.employees[i]) = level})
        total == f.num_employees
        \* (target_pct - current_pct) * 100 * (total + 1)
        difference(level) ==
            IF total + 1 > 0
            THEN target_mix[level] * (total + 1) - 100 * current_mix(level)
            ELSE target_mix[level]
        i == CHOOSE k \in DOMAIN JobLevels :
                 /\ \A j \in DOMAIN JobLevels : difference(JobLevels[j]) <= difference(JobLevels[k])
                 /\ \A j \in 1..(k - 1) : difference(JobLevels[j]) < difference(JobLevels[k])
    IN  JobLevels[i]

\* a candidate list that takes job seekers of any skill level and any skill type
HireAnyJobSeeker(f, ps, job_level) ==
    SortBySkillDesc({p \in DOMAIN ps : ps[p].in_agents /\ ps[p].job_seeking
                                          /\ ps[p].employer = "none"
                                          /\ p \notin f.previous_employees}, ps)

\* candidates_to_consider of FirmAgent.hire_new_employee, sorted by skill
HireCandidateList(f, ps, job_level) ==
    LET firm_levels == IF f.firm_area \in DOMAIN min_skill_levels_config
                       THEN min_skill_levels_config[f.firm_area]
                       ELSE min_skill_levels_config["physical"]
        min_skill_level == firm_levels[job_level]
        matching_skill_type == IF f.firm_area \in DOMAIN skill_mix_config
                               THEN f.firm_area ELSE "physical"
        available_job_seekers ==
            {p \in DOMAIN ps : ps[p].in_agents /\ ps[p].job_seeking /\ ps[p].employer = "none"}
        matching_candidates ==
            {p \in available_job_seekers :
                /\ ps[p].skill_level >= min_skill_level
                /\ ps[p].skill_type = matching_skill_type
                /\ p \notin f.previous_employees}
        relaxed ==
            {p \in available_job_seekers :
                /\ ps[p].skill_level >= min_skill_level - 1000
                /\ p \notin f.previous_employees}
    IN  SortBySkillDesc(IF matching_candidates # {} THEN matching_candidates ELSE relaxed, ps)

\* offered_wage = base_wage + skill_level * 0.03 * base_wage
OfferedWage(entry_wage, job_level, skill_level) ==
    LET base_wage == (entry_wage * wage_multipliers[job_level]) \div 10
    IN  base_wage + (PctOf(base_wage, 3) * skill_level) \div 100

\* the bound of previous_employees and the number of ids dropped when it is passed
PreviousEmployeesLimit == 100

PreviousEmployeesDrop == 10

\* "if len(previous_employees) > 100: pop() ten times": set.pop() drops an arbitrary id
TrimPreviousEmployees(S) ==
    IF Cardinality(S) > PreviousEmployeesLimit
    THEN CHOOSE T \in SUBSET S : Cardinality(T) = Cardinality(S) - PreviousEmployeesDrop
    ELSE S

\* hire_new_employee reporting a hire whether or not it found a candidate
HireReportingSuccess(w, fid, pick) == [w |-> w, ok |-> TRUE]

\* FirmAgent.hire_new_employee on firm fid of world w; pick is the random.choice
\* among the top half of the candidates.
hire_new_employee(w, fid, pick) ==
    LET f == w.firms[fid]
        job_level == NeededJobLevel(f, w.persons)
        candidates_to_consider == HireCandidateList(f, w.persons, job_level)
        top_candidate_count == Max(1, Len(candidates_to_consider) \div 2)
        person_to_hire == candidates_to_consider[Min(pick, top_candidate_count)]
        offered_wage == OfferedWage(f.entry_wage, job_level, w.persons[person_to_hire].skill_level)
    IN  IF candidates_to_consider = <<>>
        THEN [w |-> w, ok |-> FALSE]
        ELSE [w |-> [w EXCEPT !.persons[person_to_hire] = Employ(@, fid, job_level, offered_wage),
                              !.firms[fid].employees = Append(@, person_to_hire),
                              !.firms[fid].num_employees = @ + 1,
                              !.firms[fid].previous_employees =
                                  TrimPreviousEmployees(@ \cup {person_to_hire})],
              ok |-> TRUE]

\* a decision that never finds the profit stable
NeverStable(p0, past) == FALSE

\* is_stable of FirmAgent.adjust_employees; past is p1 + p2 + p3, so avg = past / 3
IsStable(p0, past) ==
    IF past = 0
    THEN p0 = 0
    ELSE Abs(3 * p0 - past) < (Abs(past) + 19) \div 20

\* a decision tree that reads the trend the wrong way round
EmploymentDecisionReversed(p0, past) ==
    IF p0 < 0
    THEN IF 3 * p0 > past THEN "fire" ELSE "none"
    ELSE IF 3 * p0 < past THEN "hire" ELSE "none"

\* The decision tree of FirmAgent.adjust_employees: "fire", "hire" or "none"
EmploymentDecision(p0, past) ==
    IF p0 < 0
    THEN IF 3 * p0 < past /\ ~IsStable(p0, past) THEN "fire"
         ELSE IF IsStable(p0, past) THEN "fire"
         ELSE "none"
    ELSE IF 3 * p0 > past /\ ~IsStable(p0, past) THEN "hire"
         ELSE IF IsStable(p0, past) THEN "hire"
         ELSE "none"

\* adjust_employees that never starts a cooldown after a successful hire or fire
AdjustWithoutCooldown(w, fid, pick) ==
    LET f == w.firms[fid]
        ph == f.profit_history
        n == Len(ph)
    IN  IF f.employee_adjustment_cooldown > 0
        THEN [w EXCEPT !.firms[fid].employee_adjustment_cooldown = @ - 1,
                       !.firms[fid].attempted = "cooldown",
                       !.firms[fid].adjustment_made = FALSE,
                       !.firms[fid].window = ph]
        ELSE IF n < profit_history_length
        THEN [w EXCEPT !.firms[fid].attempted = "nodata",
                       !.firms[fid].adjustment_made = FALSE,
                       !.firms[fid].window = ph]
        ELSE LET decision == EmploymentDecision(ph[n], ph[n - 1] + ph[n - 2] + ph[n - 3])
                 r == IF decision = "fire" THEN fire_least_productive(w, fid)
                      ELSE IF decision = "hire" THEN hire_new_employee(w, fid, pick)
                      ELSE [w |-> w, ok |-> FALSE]
             IN  [r.w EXCEPT !.firms[fid].attempted = decision,
                             !.firms[fid].adjustment_made = r.ok,
                             !.firms[fid].window = ph]

\* FirmAgent.adjust_employees on firm fid of world w.  The fields attempted and
\* window record which branch was taken and the profit_history it read.
adjust_employees(w, fid, pick) ==
    LET f == w.firms[fid]
        ph == f.profit_history
        n == Len(ph)
    IN  IF f.employee_adjustment_cooldown > 0
        THEN [w EXCEPT !.firms[fid].employee_adjustment_cooldown = @ - 1,
                       !.firms[fid].attempted = "cooldown",
                       !.firms[fid].adjustment_made = FALSE,
                       !.firms[fid].window = ph]
        ELSE IF n < profit_history_length
        THEN [w EXCEPT !.firms[fid].attempted = "nodata",
                       !.firms[fid].adjustment_made = FALSE,
                       !.firms[fid].window = ph]
        ELSE LET decision == EmploymentDecision(ph[n], ph[n - 1] + ph[n - 2] + ph[n - 3])
                 r == IF decision = "fire" THEN fire_least_productive(w, fid)
                      ELSE IF decision = "hire" THEN hire_new_employee(w, fid, pick)
                      ELSE [w |-> w, ok |-> FALSE]
             IN  [r.w EXCEPT !.firms[fid].employee_adjustment_cooldown =
                                 IF r.ok THEN 1 ELSE @,
                             !.firms[fid].attempted = decision,
                             !.firms[fid].adjustment_made = r.ok,
                             !.firms[fid].window = ph]

\* a history that keeps every entry
AppendUnbounded(history, x, length) == Append(history, x)

\* profit_history.append / demand_history.append with the oldest entry dropped
AppendBounded(history, x, length) ==
    LET h == Append(history, x)
    IN  IF Len(h) > length THEN Tail(h) ELSE h

\* a step that pays no corporate tax
NoTaxDue(pre_tax_profit, amount_from_gov, corporate_tax_rate) == 0

\* a corporate tax charged on the whole pre-tax profit, government purchases included
TaxOnWholeProfit(pre_tax_profit, amount_from_gov, corporate_tax_rate) ==
    IF pre_tax_profit > 0 THEN PctOf(pre_tax_profit, corporate_tax_rate) ELSE 0

\* The corporate tax of FirmAgent.step on a pre-tax profit
TaxDue(pre_tax_profit, amount_from_gov, corporate_tax_rate) ==
    IF pre_tax_profit > 0 /\ pre_tax_profit - amount_from_gov > 0
    THEN PctOf(pre_tax_profit - amount_from_gov, corporate_tax_rate)
    ELSE 0

\* government_purchases_from_firms_step.get(firm_id, 0)
PurchasedFrom(g, fid) ==
    IF fid \in DOMAIN g.government_purchases_from_firms_step
    THEN g.government_purchases_from_firms_step[fid]
    ELSE 0

\* a step that takes the units produced out of the inventory
RestockReversed(inventory, produced_units) == inventory - produced_units

\* self.inventory += self.produced_units
Restock(inventory, produced_units) == inventory + produced_units

\* FirmAgent.step up to the profit: production, costs, the report to the
\* intermediary firm, revenue, tax and profit
ProduceAndAccount(w, fid) ==
    LET f == w.firms[fid]
        added_labor == calculate_total_labor(w.persons, fid)
        labor_added_production_capacity == f.production_capacity + added_labor
        produced_units == PyRound(labor_added_production_capacity * f.production_level, 100)
        wage_costs == calculate_total_wage_cost(w.persons, fid, f.entry_wage, f.num_employees)
        production_costs == f.production_cost * produced_units
        costs == wage_costs + production_costs
        revenue == f.product_price * f.units_sold_this_step
        pre_tax_profit == revenue - costs
        tax == TaxDue(pre_tax_profit, PurchasedFrom(w.gov, fid), w.gov.corporate_tax_rate)
    IN  [w EXCEPT !.firms[fid].labor_added_production_capacity = labor_added_production_capacity,
                  !.firms[fid].produced_units = produced_units,
                  !.firms[fid].inventory = Restock(@, produced_units),
                  !.firms[fid].costs = costs,
                  !.firms[fid].revenue = revenue,
                  !.firms[fid].tax_paid_this_step = tax,
                  !.firms[fid].profit = pre_tax_profit - tax,
                  !.inter.demand_received_from_firms = @ + production_costs]

\* a firm step that appends the units sold, not the units requested, to demand_history
FirmStepRecordingSales(w, fid, pick) ==
    LET w1 == ProduceAndAccount(w, fid)
        f1 == w1.firms[fid]
        sold_units == f1.units_sold_this_step
        cost_per_unit == IF f1.produced_units > 0 THEN f1.costs \div f1.produced_units ELSE 0
        demand_history ==
            AppendBounded(f1.demand_history, f1.units_sold_this_step, demand_history_length)
        f2 == [f1 EXCEPT !.demand_history = demand_history,
                         !.average_demand = AverageDemand(demand_history)]
        f3 == adjust_production(adjust_price(f2, sold_units, f2.produced_units, cost_per_unit),
                                sold_units)
        w2 == adjust_employees([w1 EXCEPT !.firms[fid] = f3], fid, pick)
    IN  [w2 EXCEPT !.firms[fid].units_sold_this_step = 0,
                   !.firms[fid].total_requested_this_step = 0,
                   !.firms[fid].profit_history =
                       AppendBounded(@, w2.firms[fid].profit, profit_history_length)]

\* FirmAgent.step of firm fid in world w = [persons, firms, inter, gov]
FirmStepOf(w, fid, pick) ==
    LET w1 == ProduceAndAccount(w, fid)
        f1 == w1.firms[fid]
        sold_units == f1.units_sold_this_step
        cost_per_unit == IF f1.produced_units > 0 THEN f1.costs \div f1.produced_units ELSE 0
        demand_history ==
            AppendBounded(f1.demand_history, f1.total_requested_this_step, demand_history_length)
        f2 == [f1 EXCEPT !.demand_history = demand_history,
                         !.average_demand = AverageDemand(demand_history)]
        f3 == adjust_production(adjust_price(f2, sold_units, f2.produced_units, cost_per_unit),
                                sold_units)
        w2 == adjust_employees([w1 EXCEPT !.firms[fid] = f3], fid, pick)
    IN  [w2 EXCEPT !.firms[fid].units_sold_this_step = 0,
                   !.firms[fid].total_requested_this_step = 0,
                   !.firms[fid].profit_history =
                       AppendBounded(@, w2.firms[fid].profit, profit_history_length)]

\* an intermediary step that leaves demand_received_from_firms as it was
IntermediaryStepKeepingDemand(w) ==
    LET revenue == w.inter.demand_received_from_firms
        wage_per_employee ==
            IF w.inter.num_employees > 0 THEN revenue \div w.inter.num_employees ELSE 0
        employees == SeqToSet(w.inter.employees)
    IN  [w EXCEPT !.inter.revenue = revenue,
                  !.persons = [p \in DOMAIN @ |->
                                  IF p \in employees
                                  THEN [@[p] EXCEPT !.wage = wage_per_employee]
                                  ELSE @[p]]]

\* IntermediaryFirmAgent.step
IntermediaryStepOf(w) ==
    LET revenue == w.inter.demand_received_from_firms
        wage_per_employee ==
            IF w.inter.num_employees > 0 THEN revenue \div w.inter.num_employees ELSE 0
        employees == SeqToSet(w.inter.employees)
    IN  [w EXCEPT !.inter.revenue = revenue,
                  !.inter.demand_received_from_firms = 0,
                  !.persons = [p \in DOMAIN @ |->
                                  IF p \in employees
                                  THEN [@[p] EXCEPT !.wage = wage_per_employee]
                                  ELSE @[p]]]

\* skill_level * (1 + skill_improvement_rate * 1.5), capped at 100
Study(skill_level) == Min(10000, (skill_level * 10015) \div 10000)

\* min_entry_level of PersonAgent.step: the entry level of the person's skill type
\* in the first firm's table, 10 when there is no firm
MinEntryLevel(w, skill_type) ==
    IF DOMAIN w.firms # {} /\ skill_type \in DOMAIN min_skill_levels_config
    THEN min_skill_levels_config[skill_type]["entry"]
    ELSE 1000

\* PersonAgent.step
PersonStepOf(w, p) ==
    LET me == w.persons[p]
        min_entry_level == MinEntryLevel(w, me.skill_type)
        studied ==
            IF me.studying_for_min_skills \/ (me.job_seeking /\ me.skill_level < min_entry_level)
            THEN LET skill_level == Study(me.skill_level)
                     reached == skill_level >= min_entry_level
                 IN  [me EXCEPT !.skill_level = skill_level,
                                !.studying_for_min_skills = ~reached,
                                !.job_seeking = reached]
            ELSE me
        after == IF studied.employer # "none"
                 THEN [studied EXCEPT !.job_seeking = FALSE, !.studying_for_min_skills = FALSE]
                 ELSE studied
    IN  [w EXCEPT !.persons[p] = after]

-----------------------------------------------------------------------------
(* HouseholdAgent operations                                               *)

\* A candidate list that also names the firms with nothing left to sell
FirmsOfCategory(fs, category) ==
    {f \in DOMAIN fs : /\ fs[f].firm_area = category
                       /\ fs[f].product_price > 0}

\* The firms a buyer considers: firm_area == category, product_price > 0, inventory > 0
FirmsSelling(fs, category) ==
    {f \in DOMAIN fs : /\ fs[f].firm_area = category
                       /\ fs[f].product_price > 0
                       /\ fs[f].inventory > 0}

\* firms_to_consider.sort(key = product_price): a stable sort of a list of firms
RECURSIVE SortByPrice(_, _)
SortByPrice(list, fs) ==
    IF list = <<>> THEN <<>>
    ELSE LET i == CHOOSE k \in DOMAIN list :
                      /\ \A j \in DOMAIN list : fs[list[k]].product_price <= fs[list[j]].product_price
                      /\ \A j \in 1..(k - 1) : fs[list[k]].product_price < fs[list[j]].product_price
         IN  <<list[i]>> \o SortByPrice(RemoveFromSeq(list, list[i]), fs)

\* HouseholdAgent._get_cheapest_firm(category, candidate_firms): one of the cheapest
\* quarter of the candidates, pick being the random.choice
get_cheapest_firm(fs, candidate_firms, pick) ==
    LET firms_to_consider == SortByPrice(candidate_firms, fs)
        top_25_percent_count == Max(1, Len(firms_to_consider) \div 4)
    IN  firms_to_consider[Min(pick, top_25_percent_count)]

\* What a finished purchase loop leaves for inspection: the firms it chose, one per
\* iteration, the candidates still listed and the budget still unspent at its exit
LoopRun(r) == [chosen |-> r.chosen, left |-> r.left, remaining |-> r.remaining]

\* The while loop of HouseholdAgent._calculate_cost_and_buy and _spend_on_luxuries:
\* candidates is the shuffled list, cheapest tells whether the buyer looks for the
\* cheapest firm (low wealth) or takes any (random.choice: the first of the list).
\* The result also tells the firm chosen in each iteration (chosen), the candidate
\* list at the exit (left) and the budget then unspent (remaining); a firm's field
\* paid_in_tick keeps the cost_this_transaction of its buyers since the last data
\* collection.
RECURSIVE BuyLoop(_, _, _, _, _, _)
BuyLoop(fs, candidates, remaining, spent, cheapest, pick) ==
    LET currently_available_firms == SelectSeq(candidates, LAMBDA f : fs[f].inventory > 0)
    IN  IF remaining <= 0 \/ currently_available_firms = <<>>
        THEN [firms |-> fs, spent |-> spent,
              chosen |-> <<>>, left |-> candidates, remaining |-> remaining]
        ELSE LET \* actual_units = chosen_firm.fulfill_demand_request(desired_units)
                 Fulfilled(chosen_firm, r) ==
                     LET cost == r.can_fulfill * fs[chosen_firm].product_price
                     IN  BuyLoop([fs EXCEPT ![chosen_firm] =
                                               [r.firm EXCEPT !.paid_in_tick = @ + cost]],
                                 RemoveFromSeq(candidates, chosen_firm),
                                 remaining - cost, spent + cost, cheapest, pick)
                 Buy(chosen_firm) ==
                     LET desired_units == remaining \div fs[chosen_firm].product_price
                     IN  [(IF desired_units > 0
                           THEN Fulfilled(chosen_firm,
                                          FulfillDemandRequest(fs[chosen_firm], desired_units))
                           ELSE BuyLoop(fs, RemoveFromSeq(candidates, chosen_firm),
                                        remaining, spent, cheapest, pick))
                             EXCEPT !.chosen = <<chosen_firm>> \o @]
             IN  Buy(IF cheapest
                     THEN get_cheapest_firm(fs, currently_available_firms, pick)
                     ELSE Head(currently_available_firms))

\* _calculate_cost_and_buy with a purchase loop that is not capped by target_spend
BuyBeyondTarget(fs, wealth_bracket, firm_category, target_spend, order, pick) ==
    BuyLoop(fs, InOrder(order, FirmsSelling(fs, firm_category)), target_spend * 4, 0,
            wealth_bracket \notin {"middle", "high"}, pick)

\* HouseholdAgent._calculate_cost_and_buy
calculate_cost_and_buy(fs, wealth_bracket, firm_category, target_spend, order, pick) ==
    BuyLoop(fs, InOrder(order, FirmsSelling(fs, firm_category)), target_spend, 0,
            wealth_bracket \notin {"middle", "high"}, pick)

\* HouseholdAgent._spend_on_luxuries: the loop over the chosen luxury types
RECURSIVE SpendOnTypes(_, _, _, _, _)
SpendOnTypes(fs, types, budget_per_luxury_type, spent, order) ==
    IF types = <<>>
    THEN [firms |-> fs, spent |-> spent, loops |-> {}]
    ELSE LET r == BuyLoop(fs, InOrder(order, FirmsSelling(fs, Head(types))),
                          budget_per_luxury_type, 0, FALSE, 1)
         IN  [SpendOnTypes(r.firms, Tail(types), budget_per_luxury_type,
                           spent + r.spent, order)
                 EXCEPT !.loops = {LoopRun(r)} \cup @]

\* HouseholdAgent._spend_on_luxuries: spend_percent is the random.uniform draw and
\* chosen_luxury_types the random.sample
spend_on_luxuries(fs, remaining_budget, spend_percent, chosen_luxury_types, order) ==
    IF remaining_budget <= 0
    THEN [firms |-> fs, spent |-> 0, loops |-> {}]
    ELSE SpendOnTypes(fs, chosen_luxury_types,
                      PctOf(remaining_budget, spend_percent) \div Len(chosen_luxury_types),
                      0, order)

\* The (min_percent, max_percent) HouseholdAgent.step passes to _spend_on_luxuries
LuxuryRange(wealth_bracket) ==
    IF wealth_bracket = "middle" THEN [lo |-> 60, hi |-> 100] ELSE [lo |-> 80, hi |-> 100]

IncomeBracket(income, total_necessity_target) ==
    IF income < total_necessity_target THEN "low"
    ELSE IF income < total_necessity_target * 3 THEN "middle"
    ELSE "high"

WealthBracket(funds, total_necessity_target) ==
    IF 10 * funds < 12 * total_necessity_target THEN "low"
    ELSE IF funds < total_necessity_target * 4 THEN "middle"
    ELSE "high"

\* a household that counts every member as employed
MembersAllEmployed(ps, members) == SeqToSet(members)

\* employed_members of HouseholdAgent.step: the members that have an employer
employed_members(ps, members) == {p \in SeqToSet(members) : ps[p].employer # "none"}

\* HouseholdAgent.step of household h in world w.  The fields physical_target_for_attempt
\* and service_target_for_attempt keep the two necessity targets the step computed,
\* purchase_loops the purchase loops it ran.
HouseholdStepOf(w, h, order, pick, spend_percent, chosen_luxury_types) ==
    LET hh == w.households[h]
        household_step_income == SumOver(employed_members(w.persons, hh.members),
                                         [p \in DOMAIN w.persons |-> w.persons[p].wage])
        total_necessity_target == necessity_spend_per_person * hh.num_people
        income_bracket == IncomeBracket(household_step_income, total_necessity_target)
        household_step_income_posttax == PctOf(household_step_income, 100 - hh.income_tax_rate)
        available_funds == household_step_income_posttax + hh.total_household_savings
        wealth_bracket == WealthBracket(available_funds, total_necessity_target)
        attemptable_necessity_budget == Min(total_necessity_target, available_funds)
        physical_target_for_attempt == Max(0, attemptable_necessity_budget \div 2)
        \* the purchase loop of a _calculate_cost_and_buy call, none when it was skipped
        LoopsOf(r) == IF "chosen" \in DOMAIN r THEN {LoopRun(r)} ELSE {}
        \* the household after its necessity and luxury purchases
        Settle(physical, service, luxury) ==
            LET household_step_expense == physical.spent + service.spent + luxury.spent
                total_household_savings == available_funds - household_step_expense
            IN  [w EXCEPT !.firms = luxury.firms,
                          !.households[h] =
                              [@ EXCEPT !.household_step_income = household_step_income,
                                        !.income_bracket = income_bracket,
                                        !.household_step_income_posttax =
                                            household_step_income_posttax,
                                        !.wealth_bracket = wealth_bracket,
                                        !.physical_target_for_attempt =
                                            physical_target_for_attempt,
                                        !.service_target_for_attempt =
                                            Max(0, attemptable_necessity_budget
                                                       - physical.spent),
                                        !.purchase_loops =
                                            LoopsOf(physical) \cup LoopsOf(service)
                                                \cup luxury.loops,
                                        !.household_step_expense = household_step_expense,
                                        !.total_household_savings = total_household_savings,
                                        !.debt_level = IF total_household_savings < 0
                                                       THEN Abs(total_household_savings)
                                                       ELSE 0]]
        \* luxury spending out of what the necessities have left
        Luxuries(physical, service) ==
            LET total_necessity_spent == physical.spent + service.spent
                remaining_funds == available_funds - total_necessity_spent
            IN  Settle(physical, service,
                       IF wealth_bracket # "low" /\ remaining_funds > 0
                       THEN spend_on_luxuries(service.firms, remaining_funds, spend_percent,
                                              chosen_luxury_types, order)
                       ELSE [firms |-> service.firms, spent |-> 0, loops |-> {}])
        \* the service purchase gets the necessity budget the physical purchase left
        Service(physical) ==
            LET service_target_for_attempt == Max(0, attemptable_necessity_budget - physical.spent)
            IN  Luxuries(physical,
                         IF service_target_for_attempt > 0
                         THEN calculate_cost_and_buy(physical.firms, wealth_bracket, "service",
                                                     service_target_for_attempt, order, pick)
                         ELSE [firms |-> physical.firms, spent |-> 0])
    IN  Service(IF physical_target_for_attempt > 0
                THEN calculate_cost_and_buy(w.firms, wealth_bracket, "physical",
                                            physical_target_for_attempt, order, pick)
                ELSE [firms |-> w.firms, spent |-> 0])

-----------------------------------------------------------------------------
(* GovernmentAgent operations                                              *)

\* payment_per_person of _calculate_and_distribute_unemployment_payments
payment_per_person == Money(10000)

\* the buffer added to a low-income transfer
transfer_buffer == Money(5000)

\* GovernmentAgent._calculate_and_distribute_unemployment_payments
distribute_unemployment_payments(ps) ==
    LET unemployed_persons ==
            {p \in DOMAIN ps : ps[p].in_agents /\ ps[p].employer = "none" /\ ps[p].job_seeking}
    IN  [persons |-> [p \in DOMAIN ps |->
                         IF p \in unemployed_persons
                         THEN [ps[p] EXCEPT !.wage = payment_per_person]
                         ELSE ps[p]],
         total |-> payment_per_person * Cardinality(unemployed_persons)]

\* transfer_amount of _calculate_and_distribute_low_income_transfers, 0 when none is due
LowIncomeTransfer(hh) ==
    LET total_necessity_target == necessity_spend_per_person * hh.num_people
        available_funds == hh.household_step_income_posttax + hh.total_household_savings
    IN  IF available_funds < total_necessity_target
        THEN total_necessity_target - available_funds + transfer_buffer
        ELSE 0

\* low-income transfers that are paid out and reported as nothing
TransfersNotBooked(hhs) ==
    [households |-> [h \in DOMAIN hhs |->
                        [hhs[h] EXCEPT !.total_household_savings = @ + LowIncomeTransfer(hhs[h])]],
     total |-> 0]

\* GovernmentAgent._calculate_and_distribute_low_income_transfers
distribute_low_income_transfers(hhs) ==
    [households |-> [h \in DOMAIN hhs |->
                        [hhs[h] EXCEPT !.total_household_savings = @ + LowIncomeTransfer(hhs[h])]],
     total |-> SumOver(DOMAIN hhs, [h \in DOMAIN hhs |-> LowIncomeTransfer(hhs[h])])]

\* a purchase that leaves the purchase map as it was
PurchaseNotRecorded(purchases, f, cost) == purchases

\* government_purchases_from_firms_step[firm] = get(firm, 0) + cost
RecordPurchase(purchases, f, cost) ==
    [x \in DOMAIN purchases \cup {f} |->
        (IF x \in DOMAIN purchases THEN purchases[x] ELSE 0) + (IF x = f THEN cost ELSE 0)]

\* The while loop of GovernmentAgent._execute_government_necessity_spending:
\* pop(0) the next firm of the shuffled list and buy what the budget allows
RECURSIVE GovBuyLoop(_, _, _, _, _)
GovBuyLoop(fs, purchases, potential_firms, remaining, spent) ==
    IF remaining <= 0 \/ potential_firms = <<>>
    THEN [firms |-> fs, purchases |-> purchases, spent |-> spent,
          chosen |-> <<>>, left |-> potential_firms, remaining |-> remaining]
    ELSE LET chosen_firm == Head(potential_firms)
             desired_units == remaining \div fs[chosen_firm].product_price
             r == FulfillDemandRequest(fs[chosen_firm], desired_units)
             cost == r.can_fulfill * fs[chosen_firm].product_price
         IN  [(IF desired_units <= 0
               THEN GovBuyLoop(fs, purchases, Tail(potential_firms), remaining, spent)
               ELSE GovBuyLoop([fs EXCEPT ![chosen_firm] =
                                                [r.firm EXCEPT !.paid_in_tick = @ + cost]],
                               IF r.can_fulfill > 0
                               THEN RecordPurchase(purchases, chosen_firm, cost)
                               ELSE purchases,
                               Tail(potential_firms), remaining - cost, spent + cost))
                 EXCEPT !.chosen = <<chosen_firm>> \o @]

\* GovernmentAgent._execute_government_necessity_spending: the loop over the categories
RECURSIVE GovSpendOnCategories(_, _, _, _, _, _)
GovSpendOnCategories(fs, purchases, categories, budget_per_category, spent, order) ==
    IF categories = <<>>
    THEN [firms |-> fs, purchases |-> purchases, spent |-> spent, loops |-> {}]
    ELSE LET potential_firms_for_category ==
                 InOrder(order, {f \in FirmsSelling(fs, Head(categories)) :
                                    fs[f].firm_type = "necessity"})
             r == GovBuyLoop(fs, purchases, potential_firms_for_category,
                             budget_per_category, 0)
         IN  [GovSpendOnCategories(r.firms, r.purchases, Tail(categories),
                                   budget_per_category, spent + r.spent, order)
                 EXCEPT !.loops = {LoopRun(r)} \cup @]

necessity_categories_to_spend_on == <<"physical", "service">>

\* necessity spending that takes the whole budget to every category
SpendBudgetPerCategory(fs, budget, order) ==
    GovSpendOnCategories(fs, << >>, necessity_categories_to_spend_on, budget, 0, order)

\* GovernmentAgent._execute_government_necessity_spending
execute_government_necessity_spending(fs, budget, order) ==
    GovSpendOnCategories(fs, << >>, necessity_categories_to_spend_on,
                         budget \div Len(necessity_categories_to_spend_on), 0, order)

\* GovernmentAgent._collect_taxes: the households that have an income_bracket
collect_taxes(hhs, tax_rates) ==
    LET taxed == {h \in DOMAIN hhs : hhs[h].income_bracket # "none"}
        rate(h) == tax_rates[hhs[h].income_bracket]
    IN  [households |-> [h \in DOMAIN hhs |->
                            IF h \in taxed
                            THEN [hhs[h] EXCEPT !.income_tax_rate = rate(h)]
                            ELSE hhs[h]],
         total |-> SumOver(taxed, [h \in DOMAIN hhs |->
                                      IF h \in taxed
                                      THEN PctOf(hhs[h].household_step_income, rate(h))
                                      ELSE 0])]

\* a collection that takes no corporate tax from the firms
CorporateTaxesUncollected(fs) == 0

\* GovernmentAgent._collect_corporate_taxes
collect_corporate_taxes(fs) ==
    SumOver(DOMAIN fs, [f \in DOMAIN fs |-> fs[f].tax_paid_this_step])

\* a Gini computation that takes the incomes in the order of the persons
Unsorted(incomes) == incomes

\* x = sorted(incomes)
RECURSIVE sorted(_)
sorted(incomes) ==
    IF incomes = <<>> THEN <<>>
    ELSE LET i == CHOOSE k \in DOMAIN incomes : \A j \in DOMAIN incomes : incomes[k] <= incomes[j]
         IN  <<incomes[i]>> \o sorted([j \in 1..(Len(incomes) - 1) |->
                                          IF j < i THEN incomes[j] ELSE incomes[j + 1]])

\* GovernmentAgent.calculate_gini_coefficient over the persons of model.agents: the
\* coefficient 1 + 1/n - 2 * B with B = sum(x[i] * (n - i)) / (n * sum(x)), as the
\* fraction (n * sum(x) + sum(x) - 2 * sum(x[i] * (n - i))) / (n * sum(x))
calculate_gini_coefficient(ps) ==
    LET agents == SelectSeq([i \in 1..Len(ps) |-> i], LAMBDA p : ps[p].in_agents)
        incomes == [i \in 1..Len(agents) |-> Max(0, ps[agents[i]].wage)]
        x == sorted(incomes)
        n == Len(x)
        total == SumSeq(x)
        weighted == SumSeq([i \in 1..n |-> x[i] * (n - (i - 1))])
    IN  IF incomes = <<>> \/ total = 0
        THEN [num |-> 0, den |-> 1]
        ELSE [num |-> n * total + total - 2 * weighted, den |-> n * total]

\* a government step that starts buying one tick early
GovernmentStepBuyingEarly(w, current_step, order) ==
    LET unemployment == distribute_unemployment_payments(w.persons)
        transfers == distribute_low_income_transfers(w.households)
        welfare == unemployment.total + transfers.total
        reserves1 == w.gov.reserves - welfare
        spending == IF current_step > 0
                    THEN execute_government_necessity_spending(w.firms, reserves1 \div 10, order)
                    ELSE [firms |-> w.firms, purchases |-> << >>, spent |-> 0,
                          loops |-> {}]
        taxes == collect_taxes(transfers.households, w.gov.tax_rates)
        corporate == collect_corporate_taxes(spending.firms)
    IN  [w EXCEPT !.persons = unemployment.persons,
                  !.households = taxes.households,
                  !.firms = spending.firms,
                  !.gov = [@ EXCEPT !.government_purchases_from_firms_step = spending.purchases,
                                    !.purchase_loops = spending.loops,
                                    !.step_public_spending = welfare + spending.spent,
                                    !.step_tax_revenue = taxes.total,
                                    !.step_corporate_tax_revenue = corporate,
                                    !.gini_coefficient =
                                        calculate_gini_coefficient(unemployment.persons),
                                    !.reserves = reserves1 - spending.spent
                                                 + taxes.total + corporate]]

\* GovernmentAgent.step in world w at model.current_step
GovernmentStepOf(w, current_step, order) ==
    LET unemployment == distribute_unemployment_payments(w.persons)
        transfers == distribute_low_income_transfers(w.households)
        welfare == unemployment.total + transfers.total
        reserves1 == w.gov.reserves - welfare
        spending == IF current_step > 1
                    THEN execute_government_necessity_spending(w.firms, reserves1 \div 10, order)
                    ELSE [firms |-> w.firms, purchases |-> << >>, spent |-> 0,
                          loops |-> {}]
        taxes == collect_taxes(transfers.households, w.gov.tax_rates)
        corporate == collect_corporate_taxes(spending.firms)
    IN  [w EXCEPT !.persons = unemployment.persons,
                  !.households = taxes.households,
                  !.firms = spending.firms,
                  !.gov = [@ EXCEPT !.government_purchases_from_firms_step = spending.purchases,
                                    !.purchase_loops = spending.loops,
                                    !.step_public_spending = welfare + spending.spent,
                                    !.step_tax_revenue = taxes.total,
                                    !.step_corporate_tax_revenue = corporate,
                                    !.gini_coefficient =
                                        calculate_gini_coefficient(unemployment.persons),
                                    !.reserves = reserves1 - spending.spent
                                                 + taxes.total + corporate]]

-----------------------------------------------------------------------------
(* EconomicSimulationModel.step: the scheduler                             *)

\* The number of model steps a behaviour runs
MaxTicks == 5

\* random.choice among the top candidates of a hire: the index chosen
MaxPick == 2

\* spend_percent = min_percent + (max_percent - min_percent) * random(): the draws
\* of random(), in hundredths
UniformDraws == {50}

\* random.sample(luxury_types, 2)
LuxurySamples == {<<a, b>> : a \in luxury_types, b \in luxury_types} \ {<<a, a>> : a \in luxury_types}

\* a scheduler that steps the firms before the households
PhaseOrderFirmsFirst ==
    <<"government", "firms", "households", "intermediary", "persons", "collect">>

\* The phases of EconomicSimulationModel.step in the order it runs them

\* The intermediary firm paying wages before the households and the firms step
PhaseOrderIntermediaryFirst ==
    <<"government", "intermediary", "households", "firms", "persons", "collect">>

PhaseOrder == <<"government", "households", "firms", "intermediary", "persons", "collect">>

GovernmentId == "GOV"

AgentIds == {GovernmentId, IntermediaryId} \cup TableIds(HouseholdTable)
                \cup TableIds(FirmTable)

\* The world the operators work on
World == [persons |-> persons, firms |-> firms, inter |-> inter,
          households |-> households, gov |-> gov]

Install(w) ==
    /\ persons' = w.persons
    /\ firms' = w.firms
    /\ inter' = w.inter
    /\ households' = w.households
    /\ gov' = w.gov

\* [agent for agent in self.agents if isinstance(agent, ...)]: the agents a phase
\* steps, in the order model.agents lists them
AgentsOf(phase, w) ==
    IF phase = "government" THEN <<GovernmentId>>
    ELSE IF phase = "households" THEN InOrder(TableOrder(HouseholdTable), DOMAIN w.households)
    ELSE IF phase = "firms" THEN InOrder(TableOrder(FirmTable), DOMAIN w.firms)
    ELSE IF phase = "intermediary" THEN <<IntermediaryId>>
    ELSE IF phase = "persons"
         THEN SelectSeq([i \in 1..Len(PersonTable) |-> i], LAMBDA p : w.persons[p].in_agents)
    ELSE <<>>

\* The phase that runs after phase number i: the first later one that has an agent
\* to step, the data collection at the latest
RECURSIVE EnterPhase(_, _, _)
EnterPhase(i, w, current_step) ==
    LET queue == AgentsOf(PhaseOrder[i], w)
    IN  IF queue = <<>> /\ PhaseOrder[i] # "collect"
        THEN EnterPhase((i % Len(PhaseOrder)) + 1, w, current_step)
        ELSE [phase |-> PhaseOrder[i], queue |-> queue, current_step |-> current_step]

PhaseIndex(phase) == CHOOSE i \in DOMAIN PhaseOrder : PhaseOrder[i] = phase

\* The scheduler after the head of the queue has stepped in world w
Advance(s, w) ==
    IF Len(s.queue) > 1
    THEN [s EXCEPT !.queue = Tail(@)]
    ELSE EnterPhase((PhaseIndex(s.phase) % Len(PhaseOrder)) + 1, w, s.current_step)

\* agent.step() has turned the world into w: the world is w and the scheduler moves on
Scheduled(w) == Install(w) /\ sched' = Advance(sched, w)

\* The record kept of a call made on a firm from outside the scheduler: the
\* operation, its argument and result, and the fields of the firm before it
CallOn(op, f, firm_before, requested, returned) ==
    [op |-> op, firm |-> f, requested |-> requested, returned |-> returned,
     inventory_before |-> firm_before.inventory,
     units_sold_before |-> firm_before.units_sold_this_step,
     total_requested_before |-> firm_before.total_requested_this_step,
     price_before |-> firm_before.product_price,
     cooldown_before |-> firm_before.employee_adjustment_cooldown,
     num_employees_before |-> firm_before.num_employees,
     profit_history_before |-> firm_before.profit_history]

NoCall ==
    [op |-> "none", firm |-> "none", requested |-> 0, returned |-> 0,
     inventory_before |-> 0, units_sold_before |-> 0, total_requested_before |-> 0,
     price_before |-> 0, cooldown_before |-> 0, num_employees_before |-> 0,
     profit_history_before |-> <<>>]

\* The observations kept of a behaviour: how many steps each agent has taken, how
\* many snapshots were collected, and the last call made on a firm
Stepped(a) == [trace EXCEPT !.steps[a] = @ + 1]

PersonStepped(p) == [trace EXCEPT !.person_steps[p] = @ + 1]

NoTrace ==
    [steps |-> [a \in AgentIds |-> 0],
     person_steps |-> [p \in PersonIds |-> 0],
     collected |-> 0, calls |-> 0, call |-> NoCall]

Init ==
    \E shuffle \in PersonOrders, hseq \in Orders(TableIds(HouseholdTable)) :
        \E m \in {BuildModel(PersonTable, FirmTable, HouseholdTable, IntermediaryTarget,
                             shuffle, hseq)} :
            /\ persons = m.persons
            /\ firms = m.firms
            /\ inter = m.inter
            /\ households = m.households
            /\ gov = m.gov
            /\ sched = [phase |-> "government", queue |-> <<GovernmentId>>, current_step |-> 0]
            /\ trace = NoTrace

\* self.government_agent.step()
GovStep ==
    /\ sched.phase = "government"
    /\ sched.current_step < MaxTicks
    /\ \E order \in Orders(DOMAIN firms) :
           Scheduled(GovernmentStepOf(World, sched.current_step, order))
    /\ trace' = Stepped(GovernmentId)

\* for agent in household_agents: agent.step()
HouseholdStep ==
    /\ sched.phase = "households"
    /\ \E order \in Orders(DOMAIN firms),
          pick \in 1..Max(1, Cardinality(DOMAIN firms) \div 4),
          u \in UniformDraws, chosen_luxury_types \in LuxurySamples :
           LET h == Head(sched.queue)
               range == LuxuryRange(WealthBracket(
                            PctOf(SumOver(employed_members(persons, households[h].members),
                                          [p \in DOMAIN persons |-> persons[p].wage]),
                                  100 - households[h].income_tax_rate)
                              + households[h].total_household_savings,
                            necessity_spend_per_person * households[h].num_people))
               spend_percent == range.lo + PctOf(range.hi - range.lo, u)
           IN  /\ Scheduled(HouseholdStepOf(World, h, order, pick, spend_percent,
                                             chosen_luxury_types))
               /\ trace' = Stepped(h)

\* for agent in firm_agents: agent.step()
FirmStep ==
    /\ sched.phase = "firms"
    /\ \E pick \in 1..MaxPick :
           LET f == Head(sched.queue)
           IN  Scheduled(FirmStepOf(World, f, pick)) /\ trace' = Stepped(f)

\* for agent in intermediary_firm_agents: agent.step()
IntermediaryStep ==
    /\ sched.phase = "intermediary"
    /\ Scheduled(IntermediaryStepOf(World))
    /\ trace' = Stepped(IntermediaryId)

\* for agent in person_agents: agent.step()
PersonStep ==
    /\ sched.phase = "persons"
    /\ LET p == Head(sched.queue)
       IN  Scheduled(PersonStepOf(World, p)) /\ trace' = PersonStepped(p)

\* self.datacollector.collect(self); self.current_step += 1.  The tick is over: the
\* ledger of the units requested and sold and of the money paid in it starts again
\* at 0.
Collect ==
    /\ sched.phase = "collect"
    /\ sched' = EnterPhase(1, World, sched.current_step + 1)
    /\ trace' = [trace EXCEPT !.collected = @ + 1]
    /\ firms' = [f \in DOMAIN firms |-> [firms[f] EXCEPT !.requested_in_tick = 0,
                                                        !.sold_in_tick = 0,
                                                        !.paid_in_tick = 0]]
    /\ UNCHANGED <<persons, inter, households, gov>>

Next ==
    \/ GovStep
    \/ HouseholdStep
    \/ FirmStep
    \/ IntermediaryStep
    \/ PersonStep
    \/ Collect

Spec == Init /\ [][Next]_vars

-----------------------------------------------------------------------------
(* A firm driven through its interface: a caller places fulfilment         *)
(* requests on one firm of a constructed model and runs the firm's step.   *)

\* The firm of the end-to-end scenario: capacity 10000, production cost 2.0,
\* markup 0.2, no employees
ScenarioFirm ==
    [id |-> "F1", firm_type |-> "necessity", firm_area |-> "physical",
     production_capacity |-> 10000, production_cost |-> Money(2), markup |-> 200,
     entry_wage |-> 600000, initial_employee_target |-> 0]

\* The firms the interface is exercised on: those the model creates
FirmScenarios == SeqToSet(FirmTable)

\* The unit counts requested
RequestSizes == {0, 500, 12000}

\* The number of fulfilment requests and of firm steps a behaviour makes
MaxCalls == 3

MaxApiSteps == 8

\* A model built around the one firm cfg, nothing stepped, the interface open
InitApi(cfg) ==
    \E shuffle \in PersonOrders :
        \E m \in {BuildModel(PersonTable, <<cfg>>, HouseholdTable, IntermediaryTarget,
                             shuffle, TableOrder(HouseholdTable))} :
            /\ persons = m.persons
            /\ firms = m.firms
            /\ inter = m.inter
            /\ households = m.households
            /\ gov = m.gov
            /\ sched = [phase |-> "api", queue |-> <<>>, current_step |-> 0]
            /\ trace = NoTrace

InitFirm == \E cfg \in FirmScenarios : InitApi(cfg)

InitScenario == InitApi(ScenarioFirm)

\* firm.fulfill_demand_request(n)
ApiFulfil ==
    /\ sched.phase = "api"
    /\ trace.calls < MaxCalls
    /\ \E f \in DOMAIN firms, n \in RequestSizes :
           LET r == FulfillDemandRequest(firms[f], n)
           IN  /\ firms' = [firms EXCEPT ![f] = r.firm]
               /\ trace' = [trace EXCEPT !.calls = @ + 1,
                                         !.call = CallOn("fulfil", f, firms[f], n, r.can_fulfill)]
    /\ UNCHANGED <<persons, inter, households, gov, sched>>

\* firm.step()
ApiFirmStep ==
    /\ sched.phase = "api"
    /\ sched.current_step < MaxApiSteps
    /\ \E f \in DOMAIN firms, pick \in 1..MaxPick :
           /\ Install(FirmStepOf(World, f, pick))
           /\ trace' = [trace EXCEPT !.steps[f] = @ + 1,
                                     !.call = CallOn("step", f, firms[f], 0, 0)]
    /\ sched' = [sched EXCEPT !.current_step = @ + 1]

NextFirm ==
    \/ ApiFulfil
    \/ ApiFirmStep

SpecFirm == InitFirm /\ [][NextFirm]_vars

SpecScenario == InitScenario /\ [][NextFirm]_vars

-----------------------------------------------------------------------------
(* A firm driven through its interface by households and the government:   *)
(* besides plain fulfilment requests, the government buys from the firm    *)
(* and records what it paid, as one iteration of its purchase loop does.   *)

\* One iteration of the loop of _execute_government_necessity_spending on firm f.
\* The government acts first: before any household request and any firm step.
ApiGovPurchase ==
    /\ sched.phase = "api"
    /\ sched.current_step = 0
    /\ trace.calls = 0
    /\ \E f \in DOMAIN firms, n \in RequestSizes \ {0} :
           LET r == FulfillDemandRequest(firms[f], n)
               cost == r.can_fulfill * firms[f].product_price
           IN  /\ firms' = [firms EXCEPT ![f] = [r.firm EXCEPT !.paid_in_tick = @ + cost]]
               /\ gov' = [gov EXCEPT !.government_purchases_from_firms_step =
                                         IF r.can_fulfill > 0
                                         THEN RecordPurchase(@, f, cost)
                                         ELSE @]
               /\ trace' = [trace EXCEPT !.calls = @ + 1,
                                         !.call = CallOn("purchase", f, firms[f], n,
                                                         r.can_fulfill)]
    /\ UNCHANGED <<persons, inter, households, sched>>

NextTax ==
    \/ ApiFulfil
    \/ ApiGovPurchase
    \/ ApiFirmStep

SpecTax == InitFirm /\ [][NextTax]_vars

-----------------------------------------------------------------------------
(* FirmAgent.adjust_employees applied to a firm whose profit history and   *)
(* cooldown are drawn from bounded sets.                                   *)

\* The profits a window is drawn from, in currency units
ProfitValues == {-100, -80, -70, -60, 0, 40, 45, 50}

\* The lengths of the profit histories drawn
WindowLengths == {profit_history_length - 1, profit_history_length}

\* The cooldowns drawn
MaxCooldown == 1

ProfitWindows ==
    UNION {[1..n -> {Money(v) : v \in ProfitValues}] : n \in WindowLengths}

InitAdjust ==
    \E shuffle \in {[i \in 1..Len(PersonTable) |-> i]} :
        \E m \in {BuildModel(PersonTable, FirmTable, HouseholdTable, IntermediaryTarget,
                             shuffle, TableOrder(HouseholdTable))} :
            \E f \in DOMAIN m.firms, profit_history \in ProfitWindows, cooldown \in 0..MaxCooldown :
                /\ persons = m.persons
                /\ firms = [m.firms EXCEPT ![f].profit_history = profit_history,
                                           ![f].employee_adjustment_cooldown = cooldown]
                /\ inter = m.inter
                /\ households = m.households
                /\ gov = m.gov
                /\ sched = [phase |-> "adjust", queue |-> <<f>>, current_step |-> 0]
                /\ trace = NoTrace

\* firm.adjust_employees()
ApiAdjustEmployees ==
    /\ sched.phase = "adjust"
    /\ sched.queue # <<>>
    /\ \E pick \in 1..MaxPick :
           LET f == Head(sched.queue)
           IN  /\ Install(adjust_employees(World, f, pick))
               /\ trace' = [trace EXCEPT !.calls = @ + 1,
                                         !.call = CallOn("adjust", f, firms[f], 0, 0)]
    /\ sched' = [sched EXCEPT !.queue = Tail(@)]

NextAdjust == ApiAdjustEmployees

SpecAdjust == InitAdjust /\ [][NextAdjust]_vars

-----------------------------------------------------------------------------
(* Households driven through their interface: in a model built with or     *)
(* without staffed firms, a caller runs household steps and government     *)
(* steps in any order.                                                     *)

\* The firm table with no initial workforce
Unstaffed(table) == [i \in DOMAIN table |-> [table[i] EXCEPT !.initial_employee_target = 0]]

\* The number of household and government steps a behaviour makes
MaxHouseholdCalls == 4

\* Two physical firms and one service firm: the two necessity categories households
\* buy, one of them with more than one seller
NecessityFirmTable ==
    << FirmTable[1],
       [id |-> "F2", firm_type |-> "necessity", firm_area |-> "service",
        production_capacity |-> 9000, production_cost |-> 15, markup |-> 3000,
        entry_wage |-> 540000, initial_employee_target |-> 1],
       [id |-> "F3", firm_type |-> "necessity", firm_area |-> "physical",
        production_capacity |-> 15000, production_cost |-> 30, markup |-> 2000,
        entry_wage |-> 700000, initial_employee_target |-> 1] >>

\* The government starts with the reserves of GovernmentAgent.__init__, or with what
\* a long run of welfare payments has left of them: little, or less than nothing.
InitHousehold ==
    \E firmTable \in {FirmTable, Unstaffed(FirmTable), NecessityFirmTable},
       interTarget \in {0, IntermediaryTarget},
       reserves \in {NewGovernment.reserves, Money(400000), 0 - Money(50000)} :
        \E m \in {BuildModel(PersonTable, firmTable, HouseholdTable, interTarget,
                             [i \in 1..Len(PersonTable) |-> i], TableOrder(HouseholdTable))} :
            /\ persons = m.persons
            /\ firms = m.firms
            /\ inter = m.inter
            /\ households = m.households
            /\ gov = [m.gov EXCEPT !.reserves = reserves]
            /\ sched = [phase |-> "household-api", queue |-> <<>>, current_step |-> 0]
            /\ trace = NoTrace

\* household.step()
ApiHouseholdStep ==
    /\ sched.phase = "household-api"
    /\ sched.current_step < MaxHouseholdCalls
    /\ \E h \in DOMAIN households, order \in Orders(DOMAIN firms),
          u \in UniformDraws, chosen_luxury_types \in LuxurySamples :
           LET range == LuxuryRange(WealthBracket(
                            PctOf(SumOver(employed_members(persons, households[h].members),
                                          [p \in DOMAIN persons |-> persons[p].wage]),
                                  100 - households[h].income_tax_rate)
                              + households[h].total_household_savings,
                            necessity_spend_per_person * households[h].num_people))
               spend_percent == range.lo + PctOf(range.hi - range.lo, u)
           IN  /\ Install(HouseholdStepOf(World, h, order, 1, spend_percent,
                                          chosen_luxury_types))
               /\ trace' = Stepped(h)
    /\ sched' = [sched EXCEPT !.current_step = @ + 1]

\* government.step()
ApiGovernmentStep ==
    /\ sched.phase = "household-api"
    /\ sched.current_step < MaxHouseholdCalls
    /\ \E order \in Orders(DOMAIN firms) :
           Install(GovernmentStepOf(World, sched.current_step, order))
    /\ trace' = Stepped(GovernmentId)
    /\ sched' = [sched EXCEPT !.current_step = @ + 1]

NextHousehold ==
    \/ ApiHouseholdStep
    \/ ApiGovernmentStep

SpecHousehold == InitHousehold /\ [][NextHousehold]_vars

-----------------------------------------------------------------------------
(* A firm's workforce driven through its interface: a caller dismisses and *)
(* hires on the firms of a constructed model in any order.                 *)

\* The number of fire and hire calls a behaviour makes
MaxWorkforceCalls == 5

\* A population in which two pairs of persons have drawn the same skill and labor
TiedPersonTable == [PersonTable EXCEPT ![2] = PersonTable[1], ![9] = PersonTable[6]]

InitWorkforce ==
    \E firmTable \in {FirmTable, Unstaffed(FirmTable)},
       personTable \in {PersonTable, TiedPersonTable}, shuffle \in PersonOrders :
        \E m \in {BuildModel(personTable, firmTable, HouseholdTable, IntermediaryTarget,
                             shuffle, TableOrder(HouseholdTable))} :
            /\ persons = m.persons
            /\ firms = m.firms
            /\ inter = m.inter
            /\ households = m.households
            /\ gov = m.gov
            /\ sched = [phase |-> "workforce-api", queue |-> <<>>, current_step |-> 0]
            /\ trace = NoTrace

\* The world after a fire or hire call on firm f that returned r, and the call recorded
WorkforceCall(op, f, r) ==
    /\ persons' = r.w.persons
    /\ firms' = r.w.firms
    /\ trace' = [trace EXCEPT !.calls = @ + 1,
                              !.call = CallOn(op, f, firms[f], 0, IF r.ok THEN 1 ELSE 0)]
    /\ sched' = [sched EXCEPT !.current_step = @ + 1]
    /\ UNCHANGED <<inter, households, gov>>

\* firm.fire_least_productive()
ApiFire ==
    /\ sched.phase = "workforce-api"
    /\ sched.current_step < MaxWorkforceCalls
    /\ \E f \in DOMAIN firms :
           WorkforceCall("fire", f, fire_least_productive([persons |-> persons, firms |-> firms], f))

\* firm.hire_new_employee()
ApiHire ==
    /\ sched.phase = "workforce-api"
    /\ sched.current_step < MaxWorkforceCalls
    /\ \E f \in DOMAIN firms, pick \in 1..MaxPick :
           WorkforceCall("hire", f,
                         hire_new_employee([persons |-> persons, firms |-> firms], f, pick))

NextWorkforce ==
    \/ ApiFire
    \/ ApiHire

SpecWorkforce == InitWorkforce /\ [][NextWorkforce]_vars

-----------------------------------------------------------------------------
(* The Gini coefficient computed over populations of given wages           *)

\* The largest population and the wages its persons are drawn with
MaxGiniPersons == 4

GiniWages == {0, Money(50), Money(100)}

InitGini ==
    \E n \in 0..MaxGiniPersons :
        \E wages \in [1..n -> GiniWages] :
            /\ persons = [p \in 1..n |-> [NewPerson(PersonTable[1]) EXCEPT !.wage = wages[p]]]
            /\ firms = << >>
            /\ inter = NewIntermediary(<< >>, 0, << >>).inter
            /\ households = << >>
            /\ gov = NewGovernment
            /\ sched = [phase |-> "gini-api", queue |-> <<>>, current_step |-> 0]
            /\ trace = NoTrace

\* self.gini_coefficient = self.calculate_gini_coefficient()
ApiGini ==
    /\ sched.phase = "gini-api"
    /\ gov' = [gov EXCEPT !.gini_coefficient = calculate_gini_coefficient(persons)]
    /\ sched' = [sched EXCEPT !.phase = "gini-done"]
    /\ trace' = Stepped(GovernmentId)
    /\ UNCHANGED <<persons, firms, inter, households>>

NextGini == ApiGini

SpecGini == InitGini /\ [][NextGini]_vars

-----------------------------------------------------------------------------
(* A person stepped on its own: the skill level is drawn anywhere, also    *)
(* outside 1..100, and the person steps with or without firms around.      *)

\* random.normalvariate(50, 15), in hundredths
RawSkills == {-500, 50, 150, 996, 2990, 9990, 12000}

\* The number of steps a person takes
MaxStudySteps == 3

InitPerson ==
    \E raw \in RawSkills, skill_type \in SeqToSet(skill_types), with_firms \in BOOLEAN :
        /\ persons = <<NewPerson([skill_type |-> skill_type, skill_level |-> raw,
                                  labor |-> 1])>>
        /\ firms = IF with_firms
                   THEN BuildFirms(persons, << >>, Unstaffed(FirmTable), <<1>>).firms
                   ELSE << >>
        /\ inter = NewIntermediary(<< >>, 0, << >>).inter
        /\ households = << >>
        /\ gov = NewGovernment
        /\ sched = [phase |-> "person-api", queue |-> <<>>, current_step |-> 0]
        /\ trace = NoTrace

\* person.step()
ApiPersonStep ==
    /\ sched.phase = "person-api"
    /\ sched.current_step < MaxStudySteps
    /\ \E p \in DOMAIN persons :
           Install(PersonStepOf(World, p)) /\ trace' = PersonStepped(p)
    /\ sched' = [sched EXCEPT !.current_step = @ + 1]

NextPerson == ApiPersonStep

SpecPerson == InitPerson /\ [][NextPerson]_vars

-----------------------------------------------------------------------------
(* Properties                                                              *)

\* C1: in every reachable state every firm has inventory >= 0 and
\* units_sold_this_step <= total_requested_this_step.
C1_InventoryAndCounters ==
    \A f \in DOMAIN firms :
        /\ firms[f].inventory >= 0
        /\ firms[f].units_sold_this_step <= firms[f].total_requested_this_step

\* a firm sold out by a request larger than its inventory
C1_Witness ==
    \E f \in DOMAIN firms :
        /\ firms[f].inventory = 0
        /\ firms[f].units_sold_this_step > 0
        /\ firms[f].units_sold_this_step < firms[f].total_requested_this_step

\* C2: fulfill_demand_request(n) returns min(n, inventory before), lowers the
\* inventory and raises units_sold_this_step by exactly that amount, and raises
\* total_requested_this_step by the whole of n, met or not.
C2_FulfilContract ==
    trace.call.op = "fulfil" =>
        LET c == trace.call
            f == firms[c.firm]
            met == IF c.requested <= c.inventory_before THEN c.requested ELSE c.inventory_before
        IN  /\ c.returned = met
            /\ f.inventory = c.inventory_before - met
            /\ f.units_sold_this_step = c.units_sold_before + met
            /\ f.total_requested_this_step = c.total_requested_before + c.requested

\* a request met only in part, after an earlier request was recorded
C2_Witness ==
    /\ trace.call.op = "fulfil"
    /\ trace.call.inventory_before > 0
    /\ trace.call.requested > trace.call.inventory_before
    /\ trace.call.total_requested_before > 0
    /\ trace.call.returned = trace.call.inventory_before

\* C3: a firm's inventory goes down only in a fulfilment: no step of a firm, of
\* the intermediary firm or of a person, and no data collection, lowers it, and a
\* step that lowers it sold exactly the units that left.
C3_InventoryDecreasesOnlyInFulfilment ==
    [][\A f \in DOMAIN firms :
          /\ sched.phase \in {"firms", "intermediary", "persons", "collect"}
                => firms'[f].inventory >= firms[f].inventory
          /\ firms'[f].inventory < firms[f].inventory
                => /\ sched.phase \in {"government", "households"}
                   /\ firms'[f].units_sold_this_step - firms[f].units_sold_this_step
                          = firms[f].inventory - firms'[f].inventory]_vars

\* the firms have stepped: one produced into its inventory and changed its workforce
C3_Witness ==
    /\ sched.phase = "intermediary"
    /\ \E f \in DOMAIN firms :
           /\ firms[f].produced_units > 0
           /\ firms[f].inventory >= firms[f].produced_units
           /\ firms[f].attempted \in {"fire", "hire"}
           /\ firms[f].employee_adjustment_cooldown = 1

\* C4: every person with an employer has job_seeking = FALSE.
C4_EmployedNotSeeking ==
    \A p \in DOMAIN persons : persons[p].employer # "none" => ~persons[p].job_seeking

\* a firm has hired a job seeker with hire_new_employee, after the government paid
\* the unemployed and the persons stepped, and somebody is still looking for a job
C4_Witness ==
    /\ \E p \in DOMAIN persons : persons[p].employer = "none" /\ persons[p].job_seeking
    /\ \E f \in DOMAIN firms : \E p \in firms[f].previous_employees :
           /\ persons[p].employer = f
           /\ persons[p].wage > 0
           /\ ~persons[p].job_seeking
           /\ trace.person_steps[p] > 0

\* C5: in every tick the government steps first, then every household, then every
\* firm, then the intermediary firm, then every person, and only then the data is
\* collected and current_step incremented: no agent is ahead of an agent of an
\* earlier phase, and nobody steps twice in a tick.
C5_PhaseOrder ==
    LET g == trace.steps[GovernmentId]
        i == trace.steps[IntermediaryId]
        hs == DOMAIN households
        fs == DOMAIN firms
        ps == {p \in DOMAIN persons : persons[p].in_agents}
    IN  /\ sched.current_step = trace.collected
        /\ g \in {trace.collected, trace.collected + 1}
        /\ \A h \in hs : trace.steps[h] <= g /\ trace.steps[h] >= trace.collected
        /\ \A h \in hs, f \in fs : trace.steps[f] <= trace.steps[h]
        /\ \A f \in fs : i <= trace.steps[f]
        /\ \A q \in ps : trace.person_steps[q] <= i
        /\ \A q \in ps : trace.collected <= trace.person_steps[q]
        /\ \A h \in hs : \A h2 \in hs : trace.steps[h] - trace.steps[h2] \in {-1, 0, 1}

\* the third tick, in the middle of the person steps
C5_Witness ==
    /\ sched.phase = "persons"
    /\ trace.collected = 2
    /\ \E p \in DOMAIN persons : trace.person_steps[p] = 3
    /\ \E p \in DOMAIN persons : persons[p].in_agents /\ trace.person_steps[p] = 2

\* C6: off cooldown and with a full profit window, p0 the latest profit and avg the
\* mean of the three before it, adjust_employees attempts: fire when p0 < 0 and
\* (p0 < avg or stable), nothing when p0 < 0 otherwise, hire when p0 >= 0 and
\* (p0 > avg or stable), nothing when p0 >= 0 otherwise; stable is
\* |p0 - avg| < 5% of |avg|, or p0 = 0 when avg = 0.  A fire takes one employee
\* away unless one or none is left, a hire adds at most one, nothing changes nothing.
C6_DecisionTable ==
    LET c == trace.call
        ph == c.profit_history_before
    IN  (c.op = "adjust" /\ c.cooldown_before = 0 /\ Len(ph) = profit_history_length) =>
            LET p0 == ph[4]
                sum == ph[1] + ph[2] + ph[3]
                stable == IF sum = 0 THEN p0 = 0 ELSE 20 * Abs(3 * p0 - sum) < Abs(sum)
                expected == IF p0 < 0
                            THEN IF 3 * p0 < sum \/ stable THEN "fire" ELSE "none"
                            ELSE IF 3 * p0 > sum \/ stable THEN "hire" ELSE "none"
                f == firms[c.firm]
            IN  /\ f.attempted = expected
                /\ expected = "fire" =>
                       f.num_employees = IF c.num_employees_before > 1
                                         THEN c.num_employees_before - 1
                                         ELSE c.num_employees_before
                /\ expected = "hire" =>
                       f.num_employees \in {c.num_employees_before, c.num_employees_before + 1}
                /\ expected = "none" => f.num_employees = c.num_employees_before

\* a loss that is smaller than the average before it and not stable: nothing is done
C6_Witness ==
    /\ trace.call.op = "adjust"
    /\ trace.call.cooldown_before = 0
    /\ trace.call.profit_history_before = <<Money(-100), Money(-100), Money(-80), Money(-60)>>
    /\ firms[trace.call.firm].attempted = "none"

\* C7 as stated: a profit history of the three entries -100, -80, -60 (p0 = -100
\* the latest) makes the firm fire, and one of 50, 40, 45 (p0 = 50) makes it hire.
C7_ThreeEntryWindow ==
    LET c == trace.call
    IN  (c.op = "adjust" /\ c.cooldown_before = 0) =>
            /\ c.profit_history_before = <<Money(-60), Money(-80), Money(-100)>>
                   => firms[c.firm].attempted = "fire"
            /\ c.profit_history_before = <<Money(45), Money(40), Money(50)>>
                   => firms[c.firm].attempted = "hire"

\* C7: the decision needs four entries.  Off cooldown, a history of fewer than four
\* entries leaves the workforce alone; the history -60, -80, -70, -100 (p0 = -100,
\* avg = -70, not stable) makes the firm fire its least productive employee, and
\* the history 40, 45, 40, 50 (p0 = 50 above the average before it, not stable)
\* makes it look for a person to hire.
C7_FourEntryWindow ==
    LET c == trace.call
        f == firms[c.firm]
    IN  (c.op = "adjust" /\ c.cooldown_before = 0) =>
            /\ Len(c.profit_history_before) < 4 =>
                   /\ f.attempted = "nodata"
                   /\ f.num_employees = c.num_employees_before
                   /\ f.employee_adjustment_cooldown = 0
            /\ c.profit_history_before = <<Money(-60), Money(-80), Money(-70), Money(-100)>> =>
                   /\ f.attempted = "fire"
                   /\ c.num_employees_before > 1 => f.num_employees = c.num_employees_before - 1
            /\ c.profit_history_before = <<Money(40), Money(45), Money(40), Money(50)>> =>
                   /\ f.attempted = "hire"
                   /\ f.num_employees >= c.num_employees_before

\* the four-entry window of the loss has made the firm fire an employee
C7_Witness ==
    /\ trace.call.op = "adjust"
    /\ trace.call.cooldown_before = 0
    /\ trace.call.profit_history_before = <<Money(-60), Money(-80), Money(-70), Money(-100)>>
    /\ firms[trace.call.firm].attempted = "fire"
    /\ firms[trace.call.firm].num_employees = trace.call.num_employees_before - 1
    /\ firms[trace.call.firm].employee_adjustment_cooldown = 1

\* C8 as stated: every firm, necessity or luxury, has product_price >= min_price
\* at the end of every firm step.
C8_PriceAtLeastMinPrice ==
    \A f \in DOMAIN firms : firms[f].product_price >= firms[f].min_price

\* C8: at the end of every firm step a necessity firm has product_price >=
\* min_price; a luxury firm has product_price >= min_price unless its average
\* demand is below 20% of its production capacity, and then still
\* product_price >= production_cost * 1.02.
C8_PriceFloor ==
    \A f \in DOMAIN firms :
        /\ firms[f].firm_type = "necessity" => firms[f].product_price >= firms[f].min_price
        /\ firms[f].firm_type = "luxury" =>
               /\ firms[f].product_price >= PctOf(firms[f].production_cost, 102)
               /\ firms[f].average_demand.num * 100
                      >= firms[f].production_capacity * 20 * firms[f].average_demand.den
                      => firms[f].product_price >= firms[f].min_price

\* a luxury firm in crisis whose step has set the price below min_price
C8_Witness ==
    \E f \in DOMAIN firms :
        /\ trace.call.op = "step"
        /\ trace.call.firm = f
        /\ firms[f].firm_type = "luxury"
        /\ firms[f].product_price < firms[f].min_price
        /\ firms[f].product_price >= PctOf(firms[f].production_cost, 102)

C10_ScenarioAsStated ==
    LET \* the scenario firm has taken its first step after one request of 12000 units
        ScenarioRun ==
            /\ trace.call.op = "step"
            /\ sched.current_step = 1
            /\ trace.calls = 1
            /\ trace.call.total_requested_before = 12000
            /\ \A f \in DOMAIN firms :
                   /\ firms[f].production_capacity = 10000
                   /\ firms[f].num_employees = 0
                   /\ firms[f].production_cost = Money(2)
    IN  ScenarioRun =>
        \A f \in DOMAIN firms :
            /\ firms[f].produced_units = 10000
            /\ firms[f].costs = Money(20000)
            /\ trace.call.price_before = 24
            /\ trace.call.units_sold_before = 10000
            /\ firms[f].revenue = Money(24000)
            /\ firms[f].profit = Money(4000)

\* C10: the scenario firm starts with an inventory of twice its capacity, so the
\* 12000 units requested are all sold at the price 2.4; its step produces 10000
\* units at cost 20000, revenue is 28800, the corporate tax 22% of the pre-tax
\* profit 8800, the profit 6864, and 18000 units stay in the inventory.
C10_Scenario ==
    LET \* the scenario firm has taken its first step after one request of 12000 units
        ScenarioRun ==
            /\ trace.call.op = "step"
            /\ sched.current_step = 1
            /\ trace.calls = 1
            /\ trace.call.total_requested_before = 12000
            /\ \A f \in DOMAIN firms :
                   /\ firms[f].production_capacity = 10000
                   /\ firms[f].num_employees = 0
                   /\ firms[f].production_cost = Money(2)
    IN  ScenarioRun =>
        \A f \in DOMAIN firms :
            /\ trace.call.inventory_before = 8000
            /\ trace.call.units_sold_before = 12000
            /\ trace.call.price_before = 24
            /\ firms[f].produced_units = 10000
            /\ firms[f].costs = Money(20000)
            /\ firms[f].revenue = Money(28800)
            /\ firms[f].tax_paid_this_step = Money(1936)
            /\ firms[f].profit = Money(6864)
            /\ firms[f].inventory = 18000

\* the scenario has run: 12000 units requested and sold, then the firm's step
C10_Witness ==
    /\ trace.call.op = "step"
    /\ sched.current_step = 1
    /\ trace.calls = 1
    /\ trace.call.total_requested_before = 12000
    /\ trace.call.units_sold_before = 12000
    /\ \A f \in DOMAIN firms :
           /\ firms[f].production_capacity = 10000
           /\ firms[f].num_employees = 0
           /\ firms[f].produced_units = 10000

\* C11: in every household step the spending of the step, necessities plus
\* luxuries, is at most available_funds, the post-tax income of the step plus the
\* savings carried into it, and the savings left are what was not spent.
C11_SpendWithinAvailableFunds ==
    [][sched.phase = "households" =>
          LET h == Head(sched.queue)
              available_funds == households'[h].household_step_income_posttax
                                     + households[h].total_household_savings
          IN  /\ households'[h].household_step_expense >= 0
              /\ households'[h].household_step_expense <= available_funds
              /\ households'[h].total_household_savings
                     = available_funds - households'[h].household_step_expense]_vars

\* a household that is not of low wealth has stepped and bought necessities and
\* luxuries, while a firm has sold out
C11_Witness ==
    \E h \in DOMAIN households :
        /\ trace.steps[h] > 0
        /\ households[h].wealth_bracket \in {"middle", "high"}
        /\ households[h].household_step_expense > 0
        /\ households[h].household_step_income_posttax > 0
        /\ \E f \in DOMAIN firms : firms[f].inventory = 0 /\ firms[f].units_sold_this_step > 0

\* C12: a household none of whose members has an employer has
\* household_step_income = 0 in its step, spends at most the savings it carried
\* into the step, and ends the step with savings strictly lower whenever it spent
\* more than 0.
C12_NoEmployedMembers ==
    [][\A h \in DOMAIN households :
          (/\ trace'.steps[h] > trace.steps[h]
           /\ \A p \in SeqToSet(households[h].members) : persons[p].employer = "none")
          => /\ households'[h].household_step_income = 0
             /\ households'[h].household_step_income_posttax = 0
             /\ households'[h].household_step_expense <= households[h].total_household_savings
             /\ households'[h].total_household_savings
                    = households[h].total_household_savings
                          - households'[h].household_step_expense
             /\ households'[h].household_step_expense > 0
                    => households'[h].total_household_savings
                           < households[h].total_household_savings]_vars

\* a household without employed members, some of them paid the unemployment
\* benefit, has stepped and spent part of its savings
C12_Witness ==
    \E h \in DOMAIN households :
        /\ trace.steps[h] > 0
        /\ \A p \in SeqToSet(households[h].members) : persons[p].employer = "none"
        /\ \E p \in SeqToSet(households[h].members) : persons[p].wage > 0
        /\ households[h].household_step_income = 0
        /\ households[h].household_step_expense > 0
        /\ households[h].total_household_savings
               < necessity_spend_per_person * households[h].num_people

\* C14: when the firm's employment decision is to hire and no job seeker is an
\* eligible candidate, the hire fails: the firm's employee list, employee count
\* and cooldown, and every person's employer, wage, job_seeking and job_level
\* are left as they were.
C14_HireWithoutCandidate ==
    [][\A f \in DOMAIN firms :
          (/\ sched.phase = "adjust"
           /\ sched.queue # <<>>
           /\ f = Head(sched.queue)
           /\ firms'[f].attempted = "hire"
           /\ HireCandidateList(firms[f], persons, NeededJobLevel(firms[f], persons)) = <<>>)
          => /\ firms'[f].employees = firms[f].employees
             /\ firms'[f].num_employees = firms[f].num_employees
             /\ firms'[f].employee_adjustment_cooldown = firms[f].employee_adjustment_cooldown
             /\ firms'[f].previous_employees = firms[f].previous_employees
             /\ \A p \in DOMAIN persons :
                    /\ persons'[p].employer = persons[p].employer
                    /\ persons'[p].wage = persons[p].wage
                    /\ persons'[p].job_seeking = persons[p].job_seeking
                    /\ persons'[p].job_level = persons[p].job_level]_vars

\* a firm off cooldown decided to hire, found no candidate although there are job
\* seekers, and stays off cooldown with the workforce it had
C14_Witness ==
    /\ trace.call.op = "adjust"
    /\ trace.call.cooldown_before = 0
    /\ firms[trace.call.firm].attempted = "hire"
    /\ HireCandidateList(firms[trace.call.firm], persons,
                         NeededJobLevel(firms[trace.call.firm], persons)) = <<>>
    /\ firms[trace.call.firm].num_employees = trace.call.num_employees_before
    /\ firms[trace.call.firm].employee_adjustment_cooldown = 0
    /\ \E p \in DOMAIN persons : persons[p].job_seeking /\ persons[p].employer = "none"

\* C13: fire_least_productive on a firm with one employee or none returns failure
\* and changes neither the firm nor any person, so a firm that has an employee
\* keeps at least one through every fire.
C13_FireKeepsOneEmployee ==
    [][\A f \in DOMAIN firms :
          (trace'.calls > trace.calls /\ trace'.call.op = "fire" /\ trace'.call.firm = f)
          => /\ firms[f].num_employees <= 1
                    => /\ trace'.call.returned = 0
                       /\ firms' = firms
                       /\ persons' = persons
             /\ firms[f].num_employees >= 1 => firms'[f].num_employees >= 1
             /\ firms'[f].num_employees = Len(firms'[f].employees)]_vars

\* a firm fired down to its last employee, and the fire called after that failed
C13_Witness ==
    /\ trace.call.op = "fire"
    /\ trace.call.returned = 0
    /\ trace.call.num_employees_before = 1
    /\ firms[trace.call.firm].num_employees = 1
    /\ firms[trace.call.firm].fired # {}

\* C15: the Gini coefficient computed over the persons' wages is 0 when every
\* wage is 0, whatever the number of persons, and is 0.75 when three of four
\* persons have wage 0 and one has wage 100.
C15_Gini ==
    sched.phase = "gini-done" =>
        /\ (\A p \in DOMAIN persons : persons[p].wage = 0)
               => gov.gini_coefficient.num = 0
        /\ (/\ Len(persons) = 4
            /\ \E q \in DOMAIN persons :
                   /\ persons[q].wage = Money(100)
                   /\ \A p \in DOMAIN persons \ {q} : persons[p].wage = 0)
               => /\ gov.gini_coefficient.den > 0
                  /\ 4 * gov.gini_coefficient.num = 3 * gov.gini_coefficient.den

\* the coefficient has been computed over the wages 100, 0, 0, 0, in an order that
\* needs sorting
C15_Witness ==
    /\ sched.phase = "gini-done"
    /\ Len(persons) = 4
    /\ [p \in 1..4 |-> persons[p].wage] = <<Money(100), 0, 0, 0>>
    /\ 4 * gov.gini_coefficient.num = 3 * gov.gini_coefficient.den

\* C16: every person has 1 <= skill_level <= 100, as constructed and after any
\* number of steps in which the person studies.
C16_SkillLevelRange ==
    \A p \in DOMAIN persons : persons[p].skill_level >= 100 /\ persons[p].skill_level <= 10000

\* a person below the entry level of its skill type has studied in two steps and
\* raised its skill level, still short of the entry level
C16_Witness ==
    \E p \in DOMAIN persons :
        /\ trace.person_steps[p] >= 2
        /\ persons[p].studying_for_min_skills
        /\ ~persons[p].job_seeking
        /\ persons[p].skill_level = 2998


\* C17: the firm step that follows a step in which a hire or a fire succeeded
\* changes nothing in the firm's workforce (it only consumes the cooldown), a
\* hire or fire succeeds exactly when the workforce changed, and a step whose
\* hire or fire failed, or that chose no action, leaves the cooldown at 0.
C17_CooldownAfterAdjustment ==
    [][sched'.current_step # sched.current_step =>
          LET f == trace'.call.firm
          IN  /\ firms[f].adjustment_made =>
                     /\ firms'[f].attempted = "cooldown"
                     /\ ~firms'[f].adjustment_made
                     /\ firms'[f].employees = firms[f].employees
                     /\ firms'[f].num_employees = firms[f].num_employees
                     /\ \A p \in DOMAIN persons :
                            persons'[p].employer = persons[p].employer
              /\ firms'[f].adjustment_made <=> firms'[f].employees # firms[f].employees
              /\ (~firms[f].adjustment_made /\ ~firms'[f].adjustment_made)
                     => firms'[f].employee_adjustment_cooldown = 0]_vars

\* a firm that dismissed an employee has sat out its following step, the
\* cooldown is used up and the workforce is what the dismissal left
C17_Witness ==
    \E f \in DOMAIN firms :
        /\ firms[f].attempted = "cooldown"
        /\ ~firms[f].adjustment_made
        /\ firms[f].fired # {}
        /\ firms[f].employee_adjustment_cooldown = 0
        /\ trace.steps[f] > profit_history_length + 1


\* C18: when a firm's step reaches the employment decision, the p0 the decision
\* reads is the net profit computed in that same step, and the three profits it
\* averages are those of the three steps before it.
C18_DecisionReadsCurrentProfit ==
    [][sched.phase = "firms" =>
          LET f == Head(sched.queue)
              window == firms'[f].window
              n == Len(window)
              before == firms[f].profit_history
              m == Len(before)
          IN  firms'[f].attempted \in {"fire", "hire", "none"} =>
                  /\ window[n] = firms'[f].profit
                  /\ <<window[n - 1], window[n - 2], window[n - 3]>>
                         = <<before[m], before[m - 1], before[m - 2]>>]_vars


\* C19: a person a firm has fired is in that firm's memory of previous
\* employees when the fire returns, and a later hire by the same firm never
\* takes on a person the firm has fired while the memory has not overflowed.
C19_NoRehireOfFired ==
    [][\A f \in DOMAIN firms :
          (trace'.calls > trace.calls /\ trace'.call.firm = f)
          => /\ trace'.call.op = "fire"
                    => firms'[f].fired \subseteq firms'[f].previous_employees
             /\ (trace'.call.op = "hire"
                     /\ Cardinality(firms[f].previous_employees) < PreviousEmployeesLimit)
                    => SeqToSet(firms'[f].employees) \cap firms[f].fired = {}]_vars


C21_ReportBeforeWagesSeenNextTick ==
    [][/\ sched.phase = "intermediary" =>
              LET reported == SumOver(DOMAIN firms,
                                      [f \in DOMAIN firms |->
                                          firms[f].production_cost * firms[f].produced_units])
              IN  /\ \A f \in DOMAIN firms : trace.steps[f] = sched.current_step + 1
                  /\ inter.demand_received_from_firms = reported
                  /\ inter'.revenue = reported
                  /\ \A p \in SeqToSet(inter.employees) :
                         persons'[p].wage = reported \div inter.num_employees
       /\ sched.phase = "households" =>
              LET h == Head(sched.queue)
                  earning == {p \in SeqToSet(households[h].members) :
                                 persons[p].employer # "none"}
              IN  /\ trace.steps[IntermediaryId] = sched.current_step
                  /\ \A p \in SeqToSet(inter.employees) :
                         persons[p].wage = IF sched.current_step = 0 THEN 0
                                           ELSE inter.revenue \div inter.num_employees
                  /\ households'[h].household_step_income
                         = SumOver(earning, [p \in DOMAIN persons |-> persons[p].wage])]_vars

\* a household with a member employed by the intermediary firm has stepped in a
\* tick after the first, before the intermediary firm's step of that tick, and
\* its income holds the wage the intermediary firm set the tick before
C21_Witness ==
    \E h \in DOMAIN households :
        \E p \in SeqToSet(households[h].members) :
            /\ persons[p].employer = IntermediaryId
            /\ sched.current_step >= 1
            /\ trace.steps[h] = sched.current_step + 1
            /\ trace.steps[IntermediaryId] = sched.current_step
            /\ inter.revenue > 0
            /\ persons[p].wage = inter.revenue \div inter.num_employees
            /\ households[h].household_step_income >= persons[p].wage


\* C22: an intermediary step with n >= 1 employees sets the wage of each of the
\* n employees to the money the firms paid in that tick divided by n, so that
\* the wages sum to that money up to the remainder of the division, and leaves
\* demand_received_from_firms at 0; it is 0 when the tick's data is collected.
C22_IntermediaryWages ==
    [][/\ (sched.phase = "intermediary" /\ inter.num_employees >= 1) =>
              LET received == SumOver(DOMAIN firms,
                                      [f \in DOMAIN firms |->
                                          firms[f].production_cost * firms[f].produced_units])
                  n == inter.num_employees
                  wages == SumOver(SeqToSet(inter.employees),
                                   [p \in DOMAIN persons |-> persons'[p].wage])
              IN  /\ Cardinality(SeqToSet(inter.employees)) = n
                  /\ \A p \in SeqToSet(inter.employees) : persons'[p].wage = received \div n
                  /\ wages <= received
                  /\ received - wages < n
                  /\ \A p \in DOMAIN persons \ SeqToSet(inter.employees) :
                         persons'[p] = persons[p]
                  /\ inter'.demand_received_from_firms = 0
       /\ sched.phase = "collect" => inter.demand_received_from_firms = 0]_vars

\* the intermediary firm has just shared a positive amount among two or more
\* employees in a tick after the first
C22_Witness ==
    /\ sched.phase \in {"persons", "collect"}
    /\ trace.steps[IntermediaryId] >= 2
    /\ inter.num_employees >= 2
    /\ inter.revenue > 0
    /\ inter.demand_received_from_firms = 0
    /\ \A p \in SeqToSet(inter.employees) : persons[p].wage = inter.revenue \div inter.num_employees


\* C23: a firm step sets revenue to the price times the units sold since its last
\* step, charges corporate tax only on the pre-tax profit revenue - costs less
\* what the government's purchase map holds for the firm, at the corporate tax
\* rate, charges nothing when the pre-tax profit is not positive or is covered
\* by the government's purchases, and sets profit to the pre-tax profit less
\* the tax.
C23_RevenueProfitTax ==
    [][sched'.current_step # sched.current_step =>
          LET f == trace'.call.firm
              revenue == firms[f].product_price * firms[f].units_sold_this_step
              pre_tax_profit == revenue - firms'[f].costs
              purchases == gov.government_purchases_from_firms_step
              amount_from_gov == IF f \in DOMAIN purchases THEN purchases[f] ELSE 0
              taxable == pre_tax_profit - amount_from_gov
              tax == firms'[f].tax_paid_this_step
          IN  /\ firms'[f].revenue = revenue
              /\ (pre_tax_profit > 0 /\ taxable > 0)
                     => tax = PctOf(taxable, gov.corporate_tax_rate)
              /\ (pre_tax_profit <= 0 \/ taxable <= 0) => tax = 0
              /\ firms'[f].profit = pre_tax_profit - tax]_vars

\* a firm has taken its first step after the government bought part of what it
\* sold: it paid tax, and less than the tax on its whole pre-tax profit
C23_Witness ==
    \E f \in DOMAIN firms :
        /\ trace.call.op = "step"
        /\ trace.call.firm = f
        /\ sched.current_step = 1
        /\ f \in DOMAIN gov.government_purchases_from_firms_step
        /\ gov.government_purchases_from_firms_step[f] > 0
        /\ gov.government_purchases_from_firms_step[f] < firms[f].revenue
        /\ firms[f].tax_paid_this_step > 0
        /\ firms[f].tax_paid_this_step
               < PctOf(firms[f].revenue - firms[f].costs, gov.corporate_tax_rate)


\* C24: fire_least_productive on a firm with two or more employees succeeds and
\* takes out of the employee list exactly one person, whom no employee ranks
\* below in productivity and who ranks strictly below every employee listed
\* before; that person ends with no employer, wage 0 and job_seeking, the count
\* drops by one and no other person changes.
C24_FireLeastProductive ==
    [][\A f \in DOMAIN firms :
          (/\ trace'.calls > trace.calls
           /\ trace'.call.op = "fire"
           /\ trace'.call.firm = f
           /\ firms[f].num_employees >= 2)
          => /\ trace'.call.returned = 1
             /\ \E i \in DOMAIN firms[f].employees :
                    LET employees == firms[f].employees
                        p == employees[i]
                    IN  /\ firms'[f].employees
                               = SubSeq(employees, 1, i - 1)
                                     \o SubSeq(employees, i + 1, Len(employees))
                        /\ firms'[f].num_employees = firms[f].num_employees - 1
                        /\ \A j \in DOMAIN employees :
                               ~LessProductive(persons[employees[j]], persons[p])
                        /\ \A j \in 1..(i - 1) :
                               LessProductive(persons[p], persons[employees[j]])
                        /\ persons'[p].employer = "none"
                        /\ persons'[p].wage = 0
                        /\ persons'[p].job_seeking
                        /\ \A q \in DOMAIN persons \ {p} : persons'[q] = persons[q]
             /\ \A g \in DOMAIN firms \ {f} : firms'[g] = firms[g]]_vars

\* a firm has just fired one of two employees of equal skill, labor and job
\* level and kept the other
C24_Witness ==
    /\ trace.call.op = "fire"
    /\ trace.call.returned = 1
    /\ trace.call.num_employees_before >= 2
    /\ \E p \in firms[trace.call.firm].fired,
          q \in SeqToSet(firms[trace.call.firm].employees) :
           /\ persons[p].employer = "none"
           /\ persons[p].wage = 0
           /\ persons[p].job_seeking
           /\ persons[p].skill_level = persons[q].skill_level
           /\ persons[p].labor = persons[q].labor
           /\ persons[p].job_level = persons[q].job_level
           /\ persons[q].employer = trace.call.firm


\* C25 as stated: the person a hire takes on was a job seeker without employer
\* and either matched the firm's area with skill_level at or above the minimum
\* of the job level given, or, no job seeker matching in that way, had
\* skill_level at or above that minimum less 10.
C25_HiredFromPoolAsStated ==
    [][\A f \in DOMAIN firms :
          (/\ trace'.calls > trace.calls
           /\ trace'.call.op = "hire"
           /\ trace'.call.firm = f
           /\ trace'.call.returned = 1)
          => \A p \in SeqToSet(firms'[f].employees) \ SeqToSet(firms[f].employees) :
                 LET min_skill_level ==
                         min_skill_levels_config[firms[f].firm_area][persons'[p].job_level]
                     exact == {q \in DOMAIN persons :
                                  /\ persons[q].in_agents
                                  /\ persons[q].job_seeking
                                  /\ persons[q].employer = "none"
                                  /\ persons[q].skill_level >= min_skill_level
                                  /\ persons[q].skill_type = firms[f].firm_area}
                 IN  /\ persons[p].job_seeking
                     /\ persons[p].employer = "none"
                     /\ \/ p \in exact
                        \/ /\ exact = {}
                           /\ persons[p].skill_level >= min_skill_level - 1000]_vars

\* C25: the person a hire takes on was a job seeker without employer, was not
\* among the firm's previous_employees, and either matched the firm's area with
\* skill_level at or above the minimum of the job level given, or, no job
\* seeker outside previous_employees matching in that way, had skill_level at
\* or above that minimum less 10.
C25_HiredFromPool ==
    [][\A f \in DOMAIN firms :
          (/\ trace'.calls > trace.calls
           /\ trace'.call.op = "hire"
           /\ trace'.call.firm = f
           /\ trace'.call.returned = 1)
          => \A p \in SeqToSet(firms'[f].employees) \ SeqToSet(firms[f].employees) :
                 LET min_skill_level ==
                         min_skill_levels_config[firms[f].firm_area][persons'[p].job_level]
                     exact == {q \in DOMAIN persons \ firms[f].previous_employees :
                                  /\ persons[q].in_agents
                                  /\ persons[q].job_seeking
                                  /\ persons[q].employer = "none"
                                  /\ persons[q].skill_level >= min_skill_level
                                  /\ persons[q].skill_type = firms[f].firm_area}
                 IN  /\ persons[p].job_seeking
                     /\ persons[p].employer = "none"
                     /\ p \notin firms[f].previous_employees
                     /\ \/ p \in exact
                        \/ /\ exact = {}
                           /\ persons[p].skill_level >= min_skill_level - 1000]_vars

\* a firm has just hired a person of another skill type while the one job
\* seeker of its own area was a previous employee of the firm
C25_Witness ==
    /\ trace.call.op = "hire"
    /\ trace.call.returned = 1
    /\ LET f == trace.call.firm
           p == firms[f].employees[Len(firms[f].employees)]
       IN  /\ persons[p].skill_type # firms[f].firm_area
           /\ persons[p].employer = f
           /\ \E q \in firms[f].previous_employees :
                  /\ persons[q].job_seeking
                  /\ persons[q].employer = "none"
                  /\ persons[q].skill_type = firms[f].firm_area
                  /\ persons[q].skill_level
                         >= min_skill_levels_config[firms[f].firm_area][persons[p].job_level]


C27_ProductionLevelRange ==
    \A f \in DOMAIN firms :
        /\ firms[f].production_level <= 100
        /\ firms[f].firm_type = "luxury" => firms[f].production_level >= 30
        /\ firms[f].firm_type = "necessity" => firms[f].production_level >= 20
        /\ firms[f].firm_type \in {"luxury", "necessity"}

\* a necessity firm has stepped and its production level has come down to the
\* minimum 0.2
C27_Witness ==
    \E f \in DOMAIN firms :
        /\ trace.steps[f] >= 2
        /\ firms[f].firm_type = "necessity"
        /\ firms[f].production_level = 20
        /\ firms[f].labor_added_production_capacity > 0


\* C28 as stated: in a household step the target of the physical purchase and
\* the target of the service purchase are each at most half of the attemptable
\* necessity budget min(total_necessity_target, available_funds).
C28_NecessitySplitAsStated ==
    [][\A h \in DOMAIN households :
          trace'.steps[h] > trace.steps[h]
          => LET available_funds == households'[h].household_step_income_posttax
                                        + households[h].total_household_savings
                 attemptable_necessity_budget ==
                     Min(necessity_spend_per_person * households[h].num_people,
                         available_funds)
             IN  /\ 2 * households'[h].physical_target_for_attempt
                        <= attemptable_necessity_budget
                 /\ 2 * households'[h].service_target_for_attempt
                        <= attemptable_necessity_budget]_vars

\* C28: in a household step the target of the physical purchase is half of the
\* attemptable necessity budget, the target of the service purchase is what
\* the physical purchase left of that budget, hence at least half of it, and
\* each purchase spends at most its target, the two together at most the budget.
C28_NecessitySplit ==
    [][\A h \in DOMAIN households :
          trace'.steps[h] > trace.steps[h]
          => LET available_funds == households'[h].household_step_income_posttax
                                        + households[h].total_household_savings
                 attemptable_necessity_budget ==
                     Min(necessity_spend_per_person * households[h].num_people,
                         available_funds)
                 bought(category) ==
                     SumOver({f \in DOMAIN firms : firms[f].firm_area = category},
                             [f \in DOMAIN firms |->
                                 (firms'[f].units_sold_this_step
                                      - firms[f].units_sold_this_step)
                                     * firms[f].product_price])
                 physical_target == households'[h].physical_target_for_attempt
                 service_target == households'[h].service_target_for_attempt
             IN  /\ physical_target = Max(0, attemptable_necessity_budget \div 2)
                 /\ bought("physical") <= physical_target
                 /\ service_target = Max(0, attemptable_necessity_budget - bought("physical"))
                 /\ 2 * service_target >= attemptable_necessity_budget
                 /\ bought("service") <= service_target
                 /\ bought("physical") + bought("service")
                        <= Max(0, attemptable_necessity_budget)]_vars

\* a household has bought from a physical and from a service firm, and its
\* service target was more than half of what it could spend on necessities
C28_Witness ==
    \E h \in DOMAIN households :
        /\ trace.steps[h] > 0
        /\ households[h].physical_target_for_attempt > 0
        /\ households[h].service_target_for_attempt
               > households[h].physical_target_for_attempt + 1
        /\ \E f, g \in DOMAIN firms :
               /\ firms[f].firm_area = "physical"
               /\ firms[f].units_sold_this_step > 0
               /\ firms[g].firm_area = "service"
               /\ firms[g].units_sold_this_step > 0

-----------------------------------------------------------------------------
(* Purchase loops                                                          *)

\* C29: every purchase loop (household necessity, household luxury, government
\* necessity) ends after at most one iteration per candidate firm: the firms chosen
\* in its iterations are pairwise different, a chosen firm is no longer in the
\* candidate list, and at the exit the budget is exhausted or the list is empty.
C29_PurchaseLoopsTerminate ==
    \A run \in UNION {households[h].purchase_loops : h \in DOMAIN households}
                  \cup gov.purchase_loops :
        /\ \A i, j \in DOMAIN run.chosen : i # j => run.chosen[i] # run.chosen[j]
        /\ SeqToSet(run.chosen) \cap SeqToSet(run.left) = {}
        /\ Len(run.chosen) + Len(run.left) <= Cardinality(DOMAIN firms)
        /\ run.remaining <= 0 \/ run.left = <<>>

\* A household loop went through two firms and ended with budget left and no
\* candidate, and a government loop went through two firms
C29_Witness ==
    /\ \E h \in DOMAIN households : \E run \in households[h].purchase_loops :
           /\ Len(run.chosen) >= 2
           /\ run.remaining > 0
           /\ run.left = <<>>
    /\ \E run \in gov.purchase_loops : Len(run.chosen) >= 2


\* C30: a government step starts its purchase map empty, so that at the end of
\* the step the map holds, for exactly the firms the government bought from in
\* this step, the money it paid them: units fulfilled times the firm's price.
C30_PurchaseMapOfThisStep ==
    [][trace'.steps[GovernmentId] > trace.steps[GovernmentId]
       => LET purchases == gov'.government_purchases_from_firms_step
              paid == [f \in DOMAIN firms |->
                          (firms'[f].units_sold_this_step - firms[f].units_sold_this_step)
                              * firms[f].product_price]
          IN  /\ DOMAIN purchases = {f \in DOMAIN firms : paid[f] > 0}
              /\ \A f \in DOMAIN purchases : purchases[f] = paid[f]]_vars

\* the government has stepped and its map holds what it paid one firm and nothing
\* for a firm it did not buy from
C30_Witness ==
    /\ trace.steps[GovernmentId] > 0
    /\ \E f, g \in DOMAIN firms :
           /\ f \in DOMAIN gov.government_purchases_from_firms_step
           /\ gov.government_purchases_from_firms_step[f]
                  = firms[f].units_sold_this_step * firms[f].product_price
           /\ firms[f].units_sold_this_step > 0
           /\ g \notin DOMAIN gov.government_purchases_from_firms_step


-----------------------------------------------------------------------------
(* The government's accounts                                               *)

\* C31: the corporate tax revenue of the government step of a tick is the sum of
\* the taxes the firms computed in their steps of the tick before, the firm steps
\* of this tick being still to come, and it is 0 in the first tick.
C31_CorporateTaxOfPreviousTick ==
    [][trace'.steps[GovernmentId] > trace.steps[GovernmentId]
       => /\ \A f \in DOMAIN firms : trace.steps[f] = sched.current_step
          /\ gov'.step_corporate_tax_revenue
                 = SumOver(DOMAIN firms,
                           [f \in DOMAIN firms |-> firms[f].tax_paid_this_step])
          /\ \A f \in DOMAIN firms :
                 firms'[f].tax_paid_this_step = firms[f].tax_paid_this_step
          /\ sched.current_step = 0 => gov'.step_corporate_tax_revenue = 0]_vars

\* the government has collected the tax a firm computed a tick earlier
C31_Witness ==
    /\ sched.phase = "households"
    /\ sched.current_step > 0
    /\ gov.step_corporate_tax_revenue > 0
    /\ \E f \in DOMAIN firms :
           /\ trace.steps[f] = sched.current_step
           /\ firms[f].tax_paid_this_step > 0


\* C32: what a government step pays for necessity goods is at most a tenth of the
\* reserves its unemployment payments and low-income transfers have left, and
\* nothing when they have left no positive reserves.
C32_NecessitySpendingCapped ==
    [][trace'.steps[GovernmentId] > trace.steps[GovernmentId]
       => LET unemployment_payments ==
                  payment_per_person
                      * Cardinality({p \in DOMAIN persons :
                                        /\ persons[p].in_agents
                                        /\ persons[p].employer = "none"
                                        /\ persons[p].job_seeking})
              low_income_transfers ==
                  SumOver(DOMAIN households,
                          [h \in DOMAIN households |->
                              households'[h].total_household_savings
                                  - households[h].total_household_savings])
              remaining_reserves ==
                  gov.reserves - unemployment_payments - low_income_transfers
              purchases ==
                  SumOver(DOMAIN firms,
                          [f \in DOMAIN firms |->
                              (firms'[f].units_sold_this_step - firms[f].units_sold_this_step)
                                  * firms[f].product_price])
          IN  /\ purchases >= 0
              /\ remaining_reserves > 0 => 10 * purchases <= remaining_reserves
              /\ remaining_reserves <= 0 => purchases = 0]_vars

\* the government has bought for the whole budget of a category: the purchase
\* stopped short of the seller's stock
C32_Witness ==
    /\ trace.steps[GovernmentId] > 0
    /\ \E run \in gov.purchase_loops :
           /\ run.chosen # <<>>
           /\ run.left # <<>>
           /\ run.remaining >= 0
    /\ \E f \in DOMAIN gov.government_purchases_from_firms_step :
           /\ gov.government_purchases_from_firms_step[f] > 0
           /\ firms[f].inventory > 0


\* C33: over a government step the reserves fall by the unemployment payments,
\* the low-income transfers and the necessity purchases and rise by the income
\* tax and the corporate tax, and step_public_spending is the sum of the three
\* spending items.
C33_ReservesAccount ==
    [][trace'.steps[GovernmentId] > trace.steps[GovernmentId]
       => LET unemployment_payments ==
                  payment_per_person
                      * Cardinality({p \in DOMAIN persons :
                                        /\ persons[p].in_agents
                                        /\ persons[p].employer = "none"
                                        /\ persons[p].job_seeking})
              low_income_transfers ==
                  SumOver(DOMAIN households,
                          [h \in DOMAIN households |->
                              households'[h].total_household_savings
                                  - households[h].total_household_savings])
              purchases ==
                  SumOver(DOMAIN firms,
                          [f \in DOMAIN firms |->
                              (firms'[f].units_sold_this_step - firms[f].units_sold_this_step)
                                  * firms[f].product_price])
              income_tax ==
                  SumOver({h \in DOMAIN households : households[h].income_bracket # "none"},
                          [h \in DOMAIN households |->
                              IF households[h].income_bracket = "none" THEN 0
                              ELSE PctOf(households[h].household_step_income,
                                         gov.tax_rates[households[h].income_bracket])])
              corporate_tax ==
                  SumOver(DOMAIN firms,
                          [f \in DOMAIN firms |-> firms[f].tax_paid_this_step])
          IN  /\ gov'.step_public_spending
                     = unemployment_payments + low_income_transfers + purchases
              /\ gov'.reserves
                     = gov.reserves
                           - (unemployment_payments + low_income_transfers + purchases)
                           + income_tax + corporate_tax]_vars

\* a government step has paid unemployment, a transfer and a purchase and has
\* taken income tax: its public spending exceeds its purchases and the
\* unemployment payments by the transfers
C33_Witness ==
    /\ trace.steps[GovernmentId] > 0
    /\ gov.step_tax_revenue > 0
    /\ gov.government_purchases_from_firms_step # << >>
    /\ \E p \in DOMAIN persons :
           persons[p].in_agents /\ persons[p].employer = "none" /\ persons[p].job_seeking
    /\ gov.step_public_spending
           > SumOver(DOMAIN gov.government_purchases_from_firms_step,
                     gov.government_purchases_from_firms_step)
                 + payment_per_person
                       * Cardinality({p \in DOMAIN persons :
                                         /\ persons[p].in_agents
                                         /\ persons[p].employer = "none"
                                         /\ persons[p].job_seeking})


-----------------------------------------------------------------------------
(* The rolling windows of a firm                                           *)

\* C34: a firm's profit_history never holds more than profit_history_length entries
\* and its demand_history never more than demand_history_length; a firm step appends
\* the step's profit and the step's requested units, dropping the oldest entry of
\* a full window and keeping the others in their order.
C34_RollingWindows ==
    /\ [](\A f \in DOMAIN firms :
              /\ Len(firms[f].profit_history) <= profit_history_length
              /\ Len(firms[f].demand_history) <= demand_history_length)
    /\ [][\A f \in DOMAIN firms :
              trace'.steps[f] > trace.steps[f]
              => LET ph == firms[f].profit_history
                     dh == firms[f].demand_history
                 IN  /\ firms'[f].profit_history
                            = (IF Len(ph) = profit_history_length THEN Tail(ph) ELSE ph)
                                  \o <<firms'[f].profit>>
                     /\ firms'[f].demand_history
                            = (IF Len(dh) = demand_history_length THEN Tail(dh) ELSE dh)
                                  \o <<firms[f].total_requested_this_step>>]_vars

\* a firm has stepped on full windows: both have dropped an entry, and the
\* entries differ, so that their order shows
C34_Witness ==
    \E f \in DOMAIN firms :
        /\ trace.steps[f] > demand_history_length
        /\ Len(firms[f].profit_history) = profit_history_length
        /\ Len(firms[f].demand_history) = demand_history_length
        /\ firms[f].profit_history[1] # firms[f].profit_history[profit_history_length]
        /\ firms[f].demand_history[1] # firms[f].demand_history[demand_history_length]


-----------------------------------------------------------------------------
(* The model run on a population with more persons than household places:  *)
(* the households take seven of the nine persons, the cleanup takes the    *)
(* other two out of the agents.                                            *)

InitPopulation ==
    \E shuffle \in PersonOrders, hseq \in Orders(TableIds(HouseholdTable)) :
        \E m \in {BuildModel(PersonTable, FirmTable,
                             [HouseholdTable EXCEPT ![2].num_people = 2],
                             IntermediaryTarget, shuffle, hseq)} :
            /\ persons = m.persons
            /\ firms = m.firms
            /\ inter = m.inter
            /\ households = m.households
            /\ gov = m.gov
            /\ sched = [phase |-> "government", queue |-> <<GovernmentId>>, current_step |-> 0]
            /\ trace = NoTrace

SpecPopulation == InitPopulation /\ [][Next]_vars

\* C35: every person among the model's agents is a member of exactly one household,
\* the one its household field names, no household has more members than its
\* num_people, and no step changes a person's household or a household's members.
C35_OneHouseholdForLife ==
    /\ [](/\ \A p \in DOMAIN persons :
                 persons[p].in_agents
                 => /\ persons[p].household \in DOMAIN households
                    /\ \A h \in DOMAIN households :
                           (\E i \in DOMAIN households[h].members :
                                households[h].members[i] = p)
                               <=> h = persons[p].household
          /\ \A h \in DOMAIN households :
                 /\ Len(households[h].members) <= households[h].num_people
                 /\ \A i, j \in DOMAIN households[h].members :
                        i # j => households[h].members[i] # households[h].members[j])
    /\ [][/\ \A p \in DOMAIN persons : persons'[p].household = persons[p].household
          /\ \A h \in DOMAIN households :
                 households'[h].members = households[h].members]_vars

\* the run is past its first tick with a full household, and a person the
\* households had no place for is out of the agents
C35_Witness ==
    /\ sched.current_step > 0
    /\ \E h \in DOMAIN households :
           Len(households[h].members) = households[h].num_people
    /\ \E p \in DOMAIN persons : ~persons[p].in_agents /\ persons[p].household = "none"
    /\ \E p \in DOMAIN persons : persons[p].in_agents /\ trace.person_steps[p] > 0


-----------------------------------------------------------------------------
(* Employment records                                                      *)

\* C36: for every firm and for the intermediary firm num_employees is the length
\* of the employees list, the list names no person twice, a person is in an
\* employer's list exactly when the person's employer is that employer, and no
\* person is in the lists of two employers.
C36_EmploymentRecordsAgree ==
    LET employees == [e \in DOMAIN firms \cup {IntermediaryId} |->
                         IF e = IntermediaryId THEN inter.employees ELSE firms[e].employees]
        num_employees == [e \in DOMAIN firms \cup {IntermediaryId} |->
                             IF e = IntermediaryId THEN inter.num_employees
                             ELSE firms[e].num_employees]
    IN  /\ \A e \in DOMAIN employees :
               /\ num_employees[e] = Len(employees[e])
               /\ \A i, j \in DOMAIN employees[e] : i # j => employees[e][i] # employees[e][j]
               /\ \A p \in DOMAIN persons :
                      (\E i \in DOMAIN employees[e] : employees[e][i] = p)
                          <=> persons[p].employer = e
        /\ \A e1, e2 \in DOMAIN employees :
               e1 # e2 => SeqToSet(employees[e1]) \cap SeqToSet(employees[e2]) = {}

\* a firm has dismissed one person and hired another while the intermediary firm
\* keeps its staff
C36_Witness ==
    /\ inter.num_employees > 0
    /\ \E f \in DOMAIN firms :
           /\ firms[f].fired # {}
           /\ \E p \in SeqToSet(firms[f].employees) :
                  /\ p \in firms[f].previous_employees
                  /\ p \notin firms[f].fired
           /\ \E p \in firms[f].fired : persons[p].employer = "none"


-----------------------------------------------------------------------------
(* Prices within a tick                                                    *)

\* C37: a firm's product_price changes only in that firm's own step; until that
\* step every buyer of the tick has paid the same price, and the revenue the step
\* computes is the money the buyers paid the firm in the tick, at the price the
\* firm had before the step changed it.
C37_OnePricePerTick ==
    [][\A f \in DOMAIN firms :
          /\ firms'[f].product_price # firms[f].product_price
                 => trace'.steps[f] > trace.steps[f]
          /\ trace.steps[f] = sched.current_step
                 => firms[f].paid_in_tick = firms[f].product_price * firms[f].sold_in_tick
          /\ trace'.steps[f] > trace.steps[f]
                 => /\ firms'[f].revenue = firms[f].paid_in_tick
                    /\ firms'[f].revenue
                           = firms[f].product_price * firms[f].units_sold_this_step]_vars

\* a firm has taken more in a tick than any single household spent in it and
\* nothing from the government, so that it had several buyers, and has changed
\* its price in its step: its revenue is what the buyers paid
C37_Witness ==
    \E f \in DOMAIN firms :
        /\ trace.steps[f] = sched.current_step + 1
        /\ firms[f].revenue > 0
        /\ firms[f].revenue = firms[f].paid_in_tick
        /\ firms[f].revenue # firms[f].product_price * firms[f].sold_in_tick
        /\ f \notin DOMAIN gov.government_purchases_from_firms_step
        /\ \A h \in DOMAIN households :
               /\ trace.steps[h] = sched.current_step + 1
               /\ households[h].household_step_expense < firms[f].revenue


-----------------------------------------------------------------------------
(* Household funds                                                         *)

\* C38: no household is ever in debt: in every reachable state every household's
\* total_household_savings is at least 0 and its debt_level is 0.
C38_NoHouseholdDebt ==
    \A h \in DOMAIN households :
        /\ households[h].total_household_savings >= 0
        /\ households[h].debt_level = 0

\* a household with less income than its necessity target has stepped twice and
\* has spent its savings down to less than a quarter of that target
C38_Witness ==
    \E h \in DOMAIN households :
        /\ trace.steps[h] >= 2
        /\ households[h].income_bracket = "low"
        /\ households[h].household_step_expense > 0
        /\ 4 * households[h].total_household_savings
               < necessity_spend_per_person * households[h].num_people


-----------------------------------------------------------------------------
(* Unemployment payments                                                   *)

-----------------------------------------------------------------------------
(* The first government purchases                                          *)

====
